---------------------------- MODULE Spec2Model ----------------------------
(***************************************************************************)
(* Page analyzer (servers/page_analyzer): the AnalysisManager, its         *)
(* content-type classification, its single-page analysis with per-call     *)
(* options and its semaphore-throttled batch analysis.                     *)
(*                                                                         *)
(* Text is modelled by TLA+ strings (Len, \o and SubSeq work on them), an  *)
(* Optional[str] by a sequence of at most one string (<<>> is None).       *)
(***************************************************************************)
EXTENDS Integers, Sequences, FiniteSets, TLC

(***************************************************************************)
(* Bounds of the model.                                                    *)
(***************************************************************************)
MaxUrls == 3          \* longest URL list handed to AnalysisManager.analyze_batch
MaxConcurrent == 2    \* largest max_concurrent handed to analyze_batch

(***************************************************************************)
(* Text helpers: str.lower, the `in` substring test, urlparse(...).path.   *)
(***************************************************************************)
UpperChars == "ABCDEFGHIJKLMNOPQRSTUVWXYZ"
LowerChars == "abcdefghijklmnopqrstuvwxyz"

LowerChar(c) ==
    IF \E i \in 1..Len(UpperChars) : SubSeq(UpperChars, i, i) = c
    THEN LET i == CHOOSE j \in 1..Len(UpperChars) : SubSeq(UpperChars, j, j) = c
         IN  SubSeq(LowerChars, i, i)
    ELSE c

RECURSIVE Lower(_)
Lower(s) ==
    IF Len(s) = 0 THEN ""
    ELSE LowerChar(SubSeq(s, 1, 1)) \o Lower(SubSeq(s, 2, Len(s)))

\* Python's `pattern in text`
Contains(text, pattern) ==
    \E i \in 1..(Len(text) - Len(pattern) + 1) :
        SubSeq(text, i, i + Len(pattern) - 1) = pattern

\* index of the first character of text (from position `from` on) that is one
\* of the one-character strings in `chars`; Len(text) + 1 when there is none
FirstOf(text, chars, from) ==
    LET hits == {i \in from..Len(text) : SubSeq(text, i, i) \in chars}
    IN  IF hits = {} THEN Len(text) + 1
        ELSE CHOOSE i \in hits : \A j \in hits : i <= j

\* urlparse(url).path for an absolute http(s) URL
\* "<scheme>://<netloc><path>?<query>#<fragment>": the text from the first of
\* "/", "?", "#" after the netloc up to the first of "?", "#", without the
\* ";parameters" of its last segment (urlparse's _splitparams)
UrlPath(url) ==
    LET marks == {i \in 1..(Len(url) - 2) : SubSeq(url, i, i + 2) = "://"}
        start == IF marks = {} THEN 1
                 ELSE (CHOOSE i \in marks : \A j \in marks : i <= j) + 3
        pathAt == IF marks = {} THEN 1 ELSE FirstOf(url, {"/", "?", "#"}, start)
        pathEnd == FirstOf(url, {"?", "#"}, pathAt)
        raw == SubSeq(url, pathAt, pathEnd - 1)
        slashes == {i \in 1..Len(raw) : SubSeq(raw, i, i) = "/"}
        lastSlash == IF slashes = {} THEN 1
                     ELSE CHOOSE i \in slashes : \A j \in slashes : j <= i
    IN  SubSeq(raw, 1, FirstOf(raw, {";"}, lastSlash) - 1)

\* urlparse(url).netloc
UrlNetloc(url) ==
    LET marks == {i \in 1..(Len(url) - 2) : SubSeq(url, i, i + 2) = "://"}
        start == IF marks = {} THEN 1
                 ELSE (CHOOSE i \in marks : \A j \in marks : i <= j) + 3
    IN  IF marks = {} THEN ""
        ELSE SubSeq(url, start, FirstOf(url, {"/", "?", "#"}, start) - 1)

\* a score of 1.0: the model counts scores in thousandths
ScoreScale == 1000

Min(a, b) == IF a <= b THEN a ELSE b

(***************************************************************************)
(* Optional values: None is <<>>, a value v is <<v>>.                      *)
(***************************************************************************)
None == <<>>
Some(v) == <<v>>
\* Python truthiness of an Optional[str]: neither None nor ""
Truthy(opt) == opt # None /\ opt[1] # ""

\* how a call ends: with a value, or with an exception of the given text
Raised(text) == [raised |-> TRUE, text |-> text]
Returned(v) == [raised |-> FALSE, value |-> v]

(***************************************************************************)
(* AnalysisManager._detect_content_type                                    *)
(***************************************************************************)
feed_patterns == <<"/feed", "/rss", "/atom", ".rss", ".xml", ".atom">>
api_patterns == <<"/api/", "/v1/", "/v2/", "/json", ".json">>

AnyPatternIn(patterns, path) ==
    \E k \in 1..Len(patterns) : Contains(path, patterns[k])

\* urlparse refuses a network location with one square bracket but not the
\* other: ValueError("Invalid IPv6 URL")
UrlParseRaises(url) ==
    LET netloc == UrlNetloc(url)
    IN  Contains(netloc, "[") # Contains(netloc, "]")

UrlParseErrorText == "Invalid IPv6 URL"

\* a mutant of the decision below: the API patterns looked at first
DetectFromPathApiFirst(url) ==
    LET path == UrlPath(Lower(url))
    IN  IF AnyPatternIn(api_patterns, path) THEN Returned("api")
        ELSE IF AnyPatternIn(feed_patterns, path)
        THEN Returned(IF Contains(path, "atom") THEN "atom" ELSE "rss")
        ELSE Returned("html")

\* lines 272-291: the decision from the URL alone, or urlparse's exception
DetectFromPath(url) ==
    LET url_lower == Lower(url)
        path == UrlPath(url_lower)
    IN  IF UrlParseRaises(url_lower) THEN Raised(UrlParseErrorText)
        ELSE IF AnyPatternIn(feed_patterns, path)
        THEN Returned(IF Contains(path, "atom") THEN "atom" ELSE "rss")
        ELSE IF AnyPatternIn(api_patterns, path) THEN Returned("api")
        ELSE Returned("html")

\* the URLs the model's callers hand in
PageUrl == "https://example.com/page.html"
FeedUrl == "https://example.com/feed"
ApiUrl == "https://api.example.com/v1/data"
BadUrl == "http://[example.com/feed"
ClassifyUrls ==
    {PageUrl, FeedUrl, ApiUrl, BadUrl, "https://example.com",
     "https://example.com/rss.xml", "https://example.com/atom.xml",
     "https://example.com/data.json", "https://Example.com/Feed/API/items",
     "https://example.com/api/atom", "https://feed.example.com/about?next=/api/",
     "https://example.com/v2/users#/rss", "https://example.com/blog/latest.ATOM",
     "https://example.com/page;type.xml"}

\* DetectFromPath over the model's URLs, evaluated once
DetectedTypes == [url \in ClassifyUrls |-> DetectFromPath(url)]

DetectFromUrl(url) ==
    IF url \in ClassifyUrls THEN DetectedTypes[url] ELSE DetectFromPath(url)

\* lines 263-270: the hint, when it names a type; a mutant that lets the URL
\* pattern override the hint precedes the definition
DetectContentTypeUrlFirst(url, content_type_hint) ==
    IF DetectFromUrl(url) # Returned("html") THEN DetectFromUrl(url)
    ELSE IF Truthy(content_type_hint)
              /\ Lower(content_type_hint[1]) \in {"rss", "atom", "api", "html"}
         THEN Returned(Lower(content_type_hint[1]))
         ELSE Returned("html")

DetectContentType(url, content_type_hint) ==
    IF Truthy(content_type_hint)
    THEN LET hint_lower == Lower(content_type_hint[1])
         IN  IF hint_lower \in {"rss", "atom"}
             THEN Returned(IF hint_lower = "rss" THEN "rss" ELSE "atom")
             ELSE IF hint_lower = "api" THEN Returned("api")
             ELSE IF hint_lower = "html" THEN Returned("html")
             ELSE DetectFromUrl(url)
    ELSE DetectFromUrl(url)

(***************************************************************************)
(* AnalysisConfig: the fields the analyzers read, with the model's two     *)
(* base configurations (the defaults, and the test fixture's timeout=10).  *)
(***************************************************************************)
DefaultConfig ==
    [timeout |-> 30, max_content_length |-> 1000000,
     extract_main_content |-> TRUE, extract_links |-> FALSE,
     extract_images |-> FALSE, discover_feeds |-> TRUE, calculate_scores |-> TRUE]

BaseConfigs == {DefaultConfig, [DefaultConfig EXCEPT !.timeout = 10]}

\* the Field constraints on timeout (ge=5, le=120) and max_content_length
\* (ge=10_000), checked at construction
ValidConfig(c) ==
    c.timeout >= 5 /\ c.timeout <= 120 /\ c.max_content_length >= 10000

\* the text of pydantic's ValidationError for a config that is not valid
ConfigErrorText == "1 validation error for AnalysisConfig"

\* get_page_metadata's lightweight configuration
QuickConfig ==
    [DefaultConfig EXCEPT !.extract_main_content = FALSE, !.extract_links = FALSE,
                          !.extract_images = FALSE, !.discover_feeds = FALSE,
                          !.calculate_scores = FALSE, !.timeout = 10]

(***************************************************************************)
(* AnalysisManager._merge_config_with_options: a dict is a function from   *)
(* its keys; the result is a new configuration or the raised exception.    *)
(***************************************************************************)
MergeConfigWithOptions(base, options) ==
    LET config_dict ==
            [key \in DOMAIN base |->
                IF key \in DOMAIN options THEN options[key] ELSE base[key]]
    IN  IF ValidConfig(config_dict) THEN Returned(config_dict)
        ELSE Raised(ConfigErrorText)

\* AnalysisManager._update_analyzer_configs: a no-op (`pass`); the result is
\* the analyzers' stored configurations after the call.  The mutant stores
\* the request's configuration into the shared analyzers.
UpdateAnalyzerConfigsStoring(analyzers, new_config) ==
    [a \in DOMAIN analyzers |-> new_config]

UpdateAnalyzerConfigs(analyzers, new_config) == analyzers

(***************************************************************************)
(* The documents the network serves, and urljoin for the href shapes they  *)
(* use (absolute, rooted at "/", relative to the page's directory).        *)
(***************************************************************************)
UrlScheme(url) ==
    LET marks == {i \in 1..(Len(url) - 2) : SubSeq(url, i, i + 2) = "://"}
    IN  IF marks = {} THEN ""
        ELSE SubSeq(url, 1, (CHOOSE i \in marks : \A j \in marks : i <= j) - 1)

\* the directory of the URL's path: the path up to its last "/"
UrlDir(url) ==
    LET path == UrlPath(url)
        slashes == {i \in 1..Len(path) : SubSeq(path, i, i) = "/"}
    IN  IF slashes = {} THEN "/"
        ELSE SubSeq(path, 1, CHOOSE i \in slashes : \A j \in slashes : j <= i)

UrlJoin(base, href) ==
    IF href = "" THEN base
    ELSE IF Contains(href, "://") THEN href
    ELSE IF SubSeq(href, 1, 1) = "/"
    THEN UrlScheme(base) \o "://" \o UrlNetloc(base) \o href
    ELSE UrlScheme(base) \o "://" \o UrlNetloc(base) \o UrlDir(base) \o href

\* the page of tests/conftest.py sample_html: one alternate feed link, one
\* external anchor, one image.  Of its text the model keeps what the scores
\* read: the lengths of title, description, main content and markup, the
\* number of sentences longer than 20 characters, the tags present, and the
\* two dates as ages in days at the time of the analysis (<<>> is no date,
\* a negative age a date in the future)
SamplePage ==
    [feed_links |-> << [href |-> "/feed.xml", type |-> "application/rss+xml"] >>,
     anchors |-> << "https://external.com", "/about" >>,
     images |-> << "/test.jpg" >>,
     title_len |-> 9, description_len |-> 28, content_len |-> 110,
     sentences |-> 2, html_len |-> 600, has_semantic |-> FALSE,
     has_headings |-> TRUE, has_lists |-> FALSE, has_img_alt |-> TRUE,
     published_date |-> << >>, last_modified |-> << >>]

\* a feed entry as feedparser hands it over, cut down to what the analyzer
\* reads: whether it has a title, the length of its content (content, else
\* summary, else description), its published and updated dates as ages in
\* days (<<>> is no date), its link ("" is no link)
FeedEntry(has_title, content_len, published, updated, link) ==
    [has_title |-> has_title, content_len |-> content_len,
     published |-> published, updated |-> updated, link |-> link]

\* the feed of tests/conftest.py sample_rss: what feedparser makes of it
\* (bozo is feedparser's flag of a document that is not well-formed),
\* feed_type what _determine_feed_type makes of headers and version
SampleFeed ==
    [bozo |-> FALSE, feed_type |-> "rss", title_len |-> 9, description_len |-> 15,
     has_link |-> TRUE,
     entries |-> << FeedEntry(TRUE, 18, Some(400), None, "https://example.com/article1"),
                    FeedEntry(TRUE, 19, Some(401), None, "https://example.com/article2") >>]

Take(s, n) == SubSeq(s, 1, IF Len(s) < n THEN Len(s) ELSE n)

\* the elements of s at the positions in `at`, in the order of s
Select(s, at) ==
    [k \in 1..Cardinality(at) |->
        s[CHOOSE i \in at : Cardinality({j \in at : j <= i}) = k]]

\* the elements s[i] of a list for which keep[i] holds, in the order of s
Filter(s, keep) == Select(s, {i \in 1..Len(s) : keep[i]})

\* `if x not in out: out.append(x)` over a list: the first occurrences
Dedup(s) == Select(s, {i \in 1..Len(s) : \A j \in 1..(i - 1) : s[j] # s[i]})

(***************************************************************************)
(* HtmlAnalyzer                                                            *)
(***************************************************************************)
common_feeds == << "/feed", "/rss", "/rss.xml", "/atom.xml", "/feeds/all.atom.xml" >>

\* HtmlAnalyzer._discover_feeds
DiscoverFeeds(page, base_url) ==
    LET links == page.feed_links
        hinted == [i \in 1..Len(links) |->
                      /\ links[i].href # ""
                      /\ \E t \in {"rss", "atom", "xml", "feed"} :
                            Contains(Lower(links[i].type), t)]
        linked == [i \in 1..Len(links) |-> UrlJoin(base_url, links[i].href)]
        base_domain == UrlScheme(base_url) \o "://" \o UrlNetloc(base_url)
        common == [i \in 1..Len(common_feeds) |-> base_domain \o common_feeds[i]]
    IN  Take(Dedup(Filter(linked, hinted) \o common), 10)

\* HtmlAnalyzer._extract_images
ExtractImages(page, base_url) ==
    Take(Dedup([i \in 1..Len(page.images) |-> UrlJoin(base_url, page.images[i])]), 20)

\* HtmlAnalyzer._extract_external_links
\* lines 457-460: a link is kept when its host is not empty and not the page's
IsExternal(full_url, base_domain) ==
    UrlNetloc(full_url) # "" /\ UrlNetloc(full_url) # base_domain

ExternalOf(full, base_domain) ==
    Take(Dedup(Filter(full, [i \in 1..Len(full) |-> IsExternal(full[i], base_domain)])),
         50)

ExtractExternalLinks(page, base_url) ==
    ExternalOf([i \in 1..Len(page.anchors) |-> UrlJoin(base_url, page.anchors[i])],
               UrlNetloc(base_url))

\* PageAnalysis: the fields the manager and the batch aggregation read, and
\* title and description (Optional[str] = None), which the model follows as
\* text on the API route only: of a page and a feed it keeps their lengths
PageAnalysis(url, content_type, status, error_message, feeds, images, links) ==
    [url |-> url, content_type |-> content_type, status |-> status,
     error_message |-> error_message, feeds_discovered |-> feeds,
     images |-> images, external_links |-> links,
     title |-> None, description |-> None,
     relevance_score |-> 0, quality_score |-> 0, freshness_score |-> 0]

\* the three scores of a PageAnalysis
Scores(relevance, quality, freshness) ==
    [relevance_score |-> relevance, quality_score |-> quality,
     freshness_score |-> freshness]

\* Field(ge=0.0, le=1.0)
ValidScore(score) == score >= 0 /\ score <= ScoreScale

PageAnalysisErrorText == "1 validation error for PageAnalysis"

\* PageAnalysis(..., relevance_score=, quality_score=, freshness_score=):
\* the record, or pydantic's ValidationError for a score outside [0, 1]
ScoredPageAnalysis(analysis, scores) ==
    IF /\ ValidScore(scores.relevance_score)
       /\ ValidScore(scores.quality_score)
       /\ ValidScore(scores.freshness_score)
    THEN Returned([analysis EXCEPT !.relevance_score = scores.relevance_score,
                                   !.quality_score = scores.quality_score,
                                   !.freshness_score = scores.freshness_score])
    ELSE Raised(PageAnalysisErrorText)

\* an error record that passes for a success
ErrorResultAsSuccess(url, content_type, error_msg, status) ==
    PageAnalysis(url, content_type, "success", Some(error_msg), << >>, << >>, << >>)

\* HtmlAnalyzer._error_result, FeedAnalyzer._error_result,
\* ApiAnalyzer._page_error_result: a failure record of the given content type
ErrorResult(url, content_type, error_msg, status) ==
    PageAnalysis(url, content_type, status, Some(error_msg), << >>, << >>, << >>)

\* `except Exception as e: return self._error_result(url, str(e), start_time)`
\* around the construction of the success record
OrErrorResult(url, content_type, made) ==
    IF made.raised THEN ErrorResult(url, content_type, made.text, "error")
    ELSE made.value

(***************************************************************************)
(* What one GET can come to; length is len(response.content).              *)
(***************************************************************************)
FetchOk == [kind |-> "ok", code |-> 200, text |-> "", length |-> 600]
\* a 200 answer whose body is longer than max_content_length
FetchOversized == [kind |-> "ok", code |-> 200, text |-> "", length |-> 1000001]
FetchTimeout == [kind |-> "timeout", code |-> 0, text |-> "", length |-> 0]
FetchHttp404 == [kind |-> "http_error", code |-> 404, text |-> "404 Not Found",
                 length |-> 0]
FetchRefused == [kind |-> "network_error", code |-> 0,
                 text |-> "All connection attempts failed", length |-> 0]
\* httpx.ReadError and its kin carry no text: str(e) is ""
FetchReadError == [kind |-> "network_error", code |-> 0, text |-> "", length |-> 0]

FetchOutcomes == {FetchOk, FetchTimeout, FetchHttp404, FetchRefused, FetchReadError}

\* HtmlAnalyzer._fetch_page: the response, or None on any failure
HtmlFetchPage(config, fetch) ==
    IF fetch.kind = "ok" /\ fetch.length <= config.max_content_length
    THEN Some(fetch) ELSE None

\* what the three resource extractions find in the sample page served at url
ExtractResourcesOf(page, url) ==
    [feeds |-> DiscoverFeeds(page, url),
     images |-> ExtractImages(page, url),
     links |-> ExtractExternalLinks(page, url)]

\* the sample page's resources over the model's URLs, evaluated once
ExtractedResources == [url \in ClassifyUrls |-> ExtractResourcesOf(SamplePage, url)]

PageResources(page, url) ==
    IF page = SamplePage /\ url \in ClassifyUrls THEN ExtractedResources[url]
    ELSE ExtractResourcesOf(page, url)

(***************************************************************************)
(* HtmlAnalyzer's scores, in thousandths.                                  *)
(***************************************************************************)
\* HtmlAnalyzer._calculate_relevance_score
RelevanceScore(config, page) ==
    IF ~config.calculate_scores THEN 0
    ELSE Min((IF page.title_len > 10 THEN 200 ELSE 0)
             + (IF page.description_len > 20 THEN 200 ELSE 0)
             + (IF page.content_len >= 500 THEN 400
                ELSE IF page.content_len >= 200 THEN 200 ELSE 0)
             + (IF page.content_len > 0 /\ page.sentences >= 3 THEN 200 ELSE 0),
             ScoreScale)

\* HtmlAnalyzer._calculate_quality_score
QualityScore(config, page) ==
    IF ~config.calculate_scores THEN 0
    ELSE Min((IF page.has_semantic THEN 200 ELSE 0)
             + (IF page.has_headings THEN 200 ELSE 0)
             + (IF page.content_len > 0
                THEN (IF page.html_len > 0 /\ 10 * page.content_len > page.html_len
                      THEN 300 ELSE 0)
                     + (IF page.has_lists THEN 100 ELSE 0)
                     + (IF page.has_img_alt THEN 200 ELSE 0)
                ELSE 0),
             ScoreScale)

\* lines 393-405: the score of an age in days
DayBucket(days_old) ==
    IF days_old <= 1 THEN 1000
    ELSE IF days_old <= 7 THEN 800
    ELSE IF days_old <= 30 THEN 600
    ELSE IF days_old <= 90 THEN 400
    ELSE IF days_old <= 365 THEN 200
    ELSE 100

\* HtmlAnalyzer._calculate_freshness_score
FreshnessScore(config, published_date, last_modified) ==
    IF ~config.calculate_scores THEN 0
    ELSE LET most_recent == IF last_modified # None THEN last_modified
                            ELSE published_date
         IN  IF most_recent = None THEN 0 ELSE DayBucket(most_recent[1])

HtmlScores(config, page) ==
    Scores(RelevanceScore(config, page), QualityScore(config, page),
           FreshnessScore(config, page.published_date, page.last_modified))

\* lines 83-118: the success record, with the resources the configuration
\* asks for
HtmlPageAnalysis(config, url, resources) ==
    PageAnalysis(url, "html", "success", None,
                 IF config.discover_feeds THEN resources.feeds ELSE << >>,
                 IF config.extract_images THEN resources.images ELSE << >>,
                 IF config.extract_links THEN resources.links ELSE << >>)

\* HtmlAnalyzer.analyze under the analyzer's stored configuration, when the
\* server's answer is `fetch` and an answered body is `page`
HtmlAnalyzePage(config, url, fetch, page) ==
    IF HtmlFetchPage(config, fetch) = None
    THEN ErrorResult(url, "html", "Failed to fetch page", "error")
    ELSE OrErrorResult(url, "html",
             ScoredPageAnalysis(HtmlPageAnalysis(config, url, PageResources(page, url)),
                                HtmlScores(config, page)))

HtmlAnalyze(config, url, fetch) == HtmlAnalyzePage(config, url, fetch, SamplePage)

(***************************************************************************)
(* FeedAnalyzer.analyze_feed and ApiAnalyzer.analyze_api_as_page           *)
(***************************************************************************)
HttpCodeText(code) == IF code = 404 THEN "404" ELSE "500"

RECURSIVE CountIf(_)
\* how many entries of a sequence of booleans are true
CountIf(flags) ==
    IF Len(flags) = 0 THEN 0
    ELSE (IF flags[1] THEN 1 ELSE 0) + CountIf(Tail(flags))

RECURSIVE SumSeq(_)
SumSeq(numbers) ==
    IF Len(numbers) = 0 THEN 0 ELSE numbers[1] + SumSeq(Tail(numbers))

\* FeedAnalyzer._calculate_feed_relevance_score, in thousandths
FeedRelevanceScore(config, feed) ==
    IF ~config.calculate_scores THEN 0
    ELSE LET entries == feed.entries
             first5 == Take(entries, 5)
             content_entries == CountIf([i \in 1..Len(first5) |-> first5[i].content_len > 0])
         IN  Min((IF feed.title_len > 0 THEN 200 ELSE 0)
                 + (IF feed.description_len > 0 THEN 200 ELSE 0)
                 + (IF Len(entries) > 0
                    THEN 300 + (IF Len(entries) >= 5 THEN 100 ELSE 0)
                             + (IF Len(entries) >= 10 THEN 100 ELSE 0)
                             + (IF content_entries >= 3 THEN 100 ELSE 0)
                    ELSE 0),
                 ScoreScale)

\* lines 420-443: an entry with at least three of title, content longer than
\* 50 characters, date, link
QualityEntry(entry) ==
    (IF entry.has_title THEN 1 ELSE 0)
    + (IF entry.content_len > 50 THEN 1 ELSE 0)
    + (IF entry.published # None \/ entry.updated # None THEN 1 ELSE 0)
    + (IF entry.link # "" THEN 1 ELSE 0) >= 3

\* FeedAnalyzer._calculate_feed_quality_score; the ratio times 0.5 is rounded
\* down to a thousandth
FeedQualityScore(config, feed) ==
    IF ~config.calculate_scores THEN 0
    ELSE LET entries == feed.entries
             first10 == Take(entries, 10)
             quality_entries == CountIf([i \in 1..Len(first10) |-> QualityEntry(first10[i])])
         IN  Min((IF feed.title_len > 5 THEN 200 ELSE 0)
                 + (IF feed.description_len > 20 THEN 200 ELSE 0)
                 + (IF feed.has_link THEN 100 ELSE 0)
                 + (IF Len(entries) > 0
                    THEN (quality_entries * 500) \div Min(Len(entries), 10)
                    ELSE 0),
                 ScoreScale)

\* lines 470-477: what an entry's age adds to recent_entries
FeedRecency(days_old) ==
    IF days_old <= 1 THEN 1000
    ELSE IF days_old <= 7 THEN 800
    ELSE IF days_old <= 30 THEN 400
    ELSE IF days_old <= 90 THEN 200
    ELSE 0

\* FeedAnalyzer._calculate_feed_freshness_score
FeedFreshnessScore(config, entries) ==
    IF ~config.calculate_scores \/ Len(entries) = 0 THEN 0
    ELSE LET first10 == Take(entries, 10)
             entry_date(e) == IF e.updated # None THEN e.updated ELSE e.published
             recent_entries ==
                 SumSeq([i \in 1..Len(first10) |->
                            IF entry_date(first10[i]) = None THEN 0
                            ELSE FeedRecency(entry_date(first10[i])[1])])
         IN  Min(recent_entries \div Min(Len(entries), 10), ScoreScale)

FeedScores(config, feed) ==
    Scores(FeedRelevanceScore(config, feed), FeedQualityScore(config, feed),
           FeedFreshnessScore(config, feed.entries))

\* FeedAnalyzer._extract_feed_links
ExtractFeedLinks(entries) ==
    LET first20 == Take(entries, 20)
        links == [i \in 1..Len(first20) |-> first20[i].link]
    IN  Dedup(Filter(links, [i \in 1..Len(links) |-> links[i] # ""]))

\* FeedAnalyzer.analyze_feed when the server's answer is `fetch` and an
\* answered body parses to `feed`
FeedAnalyzeFeed(config, url, fetch, feed) ==
    CASE fetch.kind = "timeout" -> ErrorResult(url, "rss", "Request timeout", "timeout")
      [] fetch.kind = "http_error" ->
            ErrorResult(url, "rss", "HTTP " \o HttpCodeText(fetch.code), "error")
      [] fetch.kind = "network_error" -> ErrorResult(url, "rss", fetch.text, "error")
      [] OTHER ->
            IF feed.bozo /\ Len(feed.entries) = 0
            THEN ErrorResult(url, "rss", "Invalid or empty feed", "error")
            ELSE OrErrorResult(url, "rss",
                     ScoredPageAnalysis(
                         PageAnalysis(url,
                             IF feed.feed_type = "rss" THEN "rss" ELSE "atom",
                             "success", None, << >>, << >>,
                             ExtractFeedLinks(feed.entries)),
                         FeedScores(config, feed)))

FeedAnalyze(config, url, fetch) == FeedAnalyzeFeed(config, url, fetch, SampleFeed)

(***************************************************************************)
(* ApiAnalyzer.  A JSON value is a record of its Python type, its str()    *)
(* text, its elements (a list) and its fields (a dict, a function from the *)
(* keys).                                                                  *)
(***************************************************************************)
JStr(text) == [type |-> "str", text |-> text, items |-> << >>, fields |-> << >>]
JNum(text) == [type |-> "int", text |-> text, items |-> << >>, fields |-> << >>]
JNull == [type |-> "NoneType", text |-> "None", items |-> << >>, fields |-> << >>]
JList(items, text) == [type |-> "list", text |-> text, items |-> items, fields |-> << >>]
JDict(fields, text) == [type |-> "dict", text |-> text, items |-> << >>, fields |-> fields]

\* Python's truth value of a JSON value
IsTruthy(value) ==
    CASE value.type = "str" -> value.text # ""
      [] value.type = "int" -> value.text # "0"
      [] value.type = "list" -> Len(value.items) > 0
      [] value.type = "dict" -> DOMAIN value.fields # {}
      [] OTHER -> FALSE

\* text[:n]
Truncate(text, n) == SubSeq(text, 1, Min(Len(text), n))

title_fields == << "title", "name", "headline", "subject", "summary" >>
content_fields == << "content", "description", "body", "text", "message" >>
url_fields == << "url", "link", "href", "permalink" >>
date_fields == << "date", "created_at", "updated_at", "published_at", "timestamp" >>
id_fields == << "id", "uuid", "key", "identifier" >>

\* the loop without its break: the last field with a true value wins
LastField(item, fields) ==
    LET hits == {k \in 1..Len(fields) :
                    fields[k] \in DOMAIN item /\ IsTruthy(item[fields[k]])}
    IN  IF hits = {} THEN None
        ELSE Some(item[fields[CHOOSE k \in hits : \A h \in hits : k >= h]].text)

\* the loop `for field in fields: if field in item and item[field]: ...; break`:
\* str() of the first field that is in the item with a true value, or None
FirstField(item, fields) ==
    LET hits == {k \in 1..Len(fields) :
                    fields[k] \in DOMAIN item /\ IsTruthy(item[fields[k]])}
    IN  IF hits = {} THEN None
        ELSE Some(item[fields[CHOOSE k \in hits : \A h \in hits : k <= h]].text)

\* ApiAnalyzer._normalize_item on a dict: the normalized dict, a function from
\* its keys, or None (<< >>) when neither title nor content was found
NormalizeItem(item) ==
    LET title == FirstField(item, title_fields)
        slots == [title |-> IF title = None THEN None
                            ELSE Some(Truncate(title[1], 200)),
                  content |-> LET content == FirstField(item, content_fields)
                              IN  IF content = None THEN None
                                  ELSE Some(Truncate(content[1], 1000)),
                  url |-> FirstField(item, url_fields),
                  date |-> FirstField(item, date_fields),
                  id |-> FirstField(item, id_fields)]
        normalized == {slot \in DOMAIN slots : slots[slot] # None}
        others == {key \in DOMAIN item :
                      key \notin normalized /\ item[key].type # "NoneType"}
        metadata == [key \in others |->
                        IF item[key].type \in {"list", "dict"}
                        THEN JStr(Truncate(item[key].text, 100))
                        ELSE item[key]]
    IN  IF slots.title = None /\ slots.content = None THEN None
        ELSE [key \in normalized \cup (IF others = {} THEN {} ELSE {"metadata"}) |->
                 IF key = "metadata" THEN metadata ELSE slots[key][1]]

\* an item that is None rather than a dict
IsNone(item) == DOMAIN item = {}

\* the array fields _extract_from_dict looks for, in its order
container_fields ==
    << "items", "data", "results", "entries", "posts", "articles",
       "content", "records", "documents", "objects" >>

\* ApiAnalyzer._extract_from_dict: every dict of the first array field's first
\* 50 elements, normalized (None included), else the root object itself
ExtractFromDict(data) ==
    LET hits == {k \in 1..Len(container_fields) :
                    /\ container_fields[k] \in DOMAIN data.fields
                    /\ data.fields[container_fields[k]].type = "list"}
    IN  IF hits # {}
        THEN LET field == container_fields[CHOOSE k \in hits : \A h \in hits : k <= h]
                 first50 == Take(data.fields[field].items, 50)
                 dicts == Filter(first50, [i \in 1..Len(first50) |-> first50[i].type = "dict"])
             IN  [i \in 1..Len(dicts) |-> NormalizeItem(dicts[i].fields)]
        ELSE IF IsNone(NormalizeItem(data.fields)) THEN << >>
             ELSE << NormalizeItem(data.fields) >>

\* ApiAnalyzer._extract_from_list
ExtractFromList(data) ==
    LET first50 == Take(data.items, 50)
        made == [i \in 1..Len(first50) |->
                    IF first50[i].type = "dict" THEN NormalizeItem(first50[i].fields)
                    ELSE IF first50[i].type = "str"
                    THEN [content |-> first50[i].text, type |-> "string"]
                    ELSE None]
    IN  Filter(made, [i \in 1..Len(made) |-> ~IsNone(made[i])])

\* ApiAnalyzer._extract_content; of a string response the model has the plain
\* text only
ExtractContent(data) ==
    Take(CASE data.type = "dict" -> ExtractFromDict(data)
           [] data.type = "list" -> ExtractFromList(data)
           [] data.type = "str" -> << [content |-> Truncate(data.text, 1000),
                                       type |-> "plain_text"] >>
           [] OTHER -> << >>,
         100)

NoneTypeErrorText == "'NoneType' object has no attribute 'get'"

\* item.get(key) is true
Has(item, key) == key \in DOMAIN item /\ item[key] # ""

\* lines 397-411: an item with at least two of title, content longer than 20
\* characters, url, date
RichItem(item) ==
    (IF Has(item, "title") THEN 1 ELSE 0)
    + (IF Has(item, "content") /\ Len(item["content"]) > 20 THEN 1 ELSE 0)
    + (IF Has(item, "url") THEN 1 ELSE 0)
    + (IF Has(item, "date") THEN 1 ELSE 0) >= 2

\* a mutant of the score below, without its cap
ApiQualityScoreUncapped(data_quality) == data_quality + 200

\* ApiAnalyzer._calculate_api_quality_score, in thousandths
ApiQualityScore(data_quality) == Min(data_quality + 200, ScoreScale)

\* ApiAnalyzer._calculate_data_quality, in thousandths (each ratio's share is
\* rounded down to a thousandth): the score, or the AttributeError that
\* item.get and item.keys raise on a None among the items looked at
DataQuality(extracted_content) ==
    LET n == Len(extracted_content)
        first10 == Take(extracted_content, 10)
        rich_items == CountIf([i \in 1..Len(first10) |-> RichItem(first10[i])])
        first_keys == DOMAIN extracted_content[1]
        next5 == SubSeq(extracted_content, 2, Min(n, 6))
        consistent_items ==
            CountIf([i \in 1..Len(next5) |->
                2 * Cardinality(DOMAIN next5[i] \cap first_keys)
                    >= Cardinality(first_keys)])
    IN  IF n = 0 THEN Returned(0)
        ELSE IF \E i \in 1..Len(first10) : IsNone(first10[i])
        THEN Raised(NoneTypeErrorText)
        ELSE Returned(Min(300 + (rich_items * 400) \div Min(n, 10)
                          + (IF n > 1
                             THEN (consistent_items * 300) \div Min(n - 1, 5)
                             ELSE 0),
                          ScoreScale))

\* the age in days of the dates dateutil can parse; any other text it refuses
DateAges ==
    ("2024-07-01T12:00:00Z" :> 400) @@ ("2024-06-30T12:00:00Z" :> 401)
    @@ ("2024-01-01" :> 580) @@ ("2031-01-01" :> (0 - 1900))
    @@ ("2025-08-01" :> 0) @@ ("2025-07-28" :> 4) @@ ("2025-07-10" :> 22)

\* lines 518-523: what an item's age adds to fresh_items
ApiRecency(days_old) ==
    IF days_old <= 1 THEN 1000
    ELSE IF days_old <= 7 THEN 800
    ELSE IF days_old <= 30 THEN 400
    ELSE 0

\* ApiAnalyzer._calculate_api_freshness_score
ApiFreshnessScore(extracted_content) ==
    IF Len(extracted_content) = 0 THEN 0
    ELSE LET first10 == Take(extracted_content, 10)
             fresh_items ==
                 SumSeq([i \in 1..Len(first10) |->
                            IF Has(first10[i], "date")
                                  /\ first10[i]["date"] \in DOMAIN DateAges
                            THEN ApiRecency(DateAges[first10[i]["date"]])
                            ELSE 0])
         IN  Min(fresh_items \div Min(Len(extracted_content), 10), ScoreScale)

\* ApiAnalyzer._extract_api_links
ExtractApiLinks(extracted_content) ==
    LET first50 == Take(extracted_content, 50)
        urls == [i \in 1..Len(first50) |->
                    IF Has(first50[i], "url") THEN first50[i]["url"] ELSE ""]
    IN  Dedup(Filter(urls, [i \in 1..Len(urls) |-> urls[i] # ""]))

\* ApiAnalysis: the fields the model follows
ApiAnalysis(url, extracted_content, data_quality, error_message) ==
    [endpoint_url |-> url, extracted_content |-> extracted_content,
     total_records |-> Len(extracted_content), data_quality |-> data_quality,
     error_message |-> error_message]

ApiAnalysisErrorText == "1 validation error for ApiAnalysis"

\* lines 68-76: the ApiAnalysis record of the extracted content
ApiAnalysisOf(url, extracted_content, data_quality) ==
    IF data_quality.raised
    THEN ApiAnalysis(url, << >>, 0, Some(data_quality.text))
    \* List[Dict[str, Any]] and Field(ge=0.0, le=1.0), checked at construction
    ELSE IF (\E i \in 1..Len(extracted_content) : IsNone(extracted_content[i]))
            \/ ~ValidScore(data_quality.value)
    THEN ApiAnalysis(url, << >>, 0, Some(ApiAnalysisErrorText))
    ELSE ApiAnalysis(url, extracted_content, data_quality.value, None)

\* lines 57-66 for the content extracted
ApiAnalysisOfContent(url, extracted_content) ==
    ApiAnalysisOf(url, extracted_content, DataQuality(extracted_content))

\* ApiAnalyzer.analyze_api_response without caller-supplied data, when the
\* server's answer is `fetch` and an answered body decodes to `data`
AnalyzeApiResponse(config, url, fetch, data) ==
    IF fetch.kind # "ok"
    THEN ApiAnalysis(url, << >>, 0, Some("Failed to fetch API data"))
    ELSE ApiAnalysisOfContent(url, ExtractContent(data))

RECURSIVE IntText(_)
\* str(n) of a natural number
IntText(n) ==
    IF n < 10 THEN SubSeq("0123456789", n + 1, n + 1)
    ELSE IntText(n \div 10) \o SubSeq("0123456789", (n % 10) + 1, (n % 10) + 1)

\* the loop `for field in fields: if field in raw_data and raw_data[field]:
\* return str(raw_data[field])[:n]` over a dict; None when it returns nothing
RootField(raw_data, fields, n) ==
    IF raw_data.type # "dict" THEN None
    ELSE LET hits == {k \in 1..Len(fields) :
                         /\ fields[k] \in DOMAIN raw_data.fields
                         /\ IsTruthy(raw_data.fields[fields[k]])}
         IN  IF hits = {} THEN None
             ELSE Some(Truncate(
                      raw_data.fields[fields[CHOOSE k \in hits :
                                                \A h \in hits : k <= h]].text, n))

api_title_fields == << "title", "name", "api_name", "service_name" >>
api_desc_fields == << "description", "summary", "about" >>

\* lines 436-441 of ApiAnalyzer._extract_api_title: without a root field
ItemsTitle(extracted_content) ==
    IF Len(extracted_content) > 0 /\ Has(extracted_content[1], "title")
    THEN "API Data: " \o extracted_content[1]["title"]
    ELSE "API Response (" \o IntText(Len(extracted_content)) \o " items)"

\* the return of the loop over the root fields, else the fallback
OrElse(found, fallback) == IF found # None THEN found ELSE fallback

\* ApiAnalyzer._extract_api_title(raw_data, extracted_content); raw_data is
\* JNull when it is None
ExtractApiTitle(raw_data, extracted_content) ==
    OrElse(RootField(raw_data, api_title_fields, 200),
           Some(ItemsTitle(extracted_content)))

\* ApiAnalyzer._extract_api_description(raw_data, extracted_content)
ExtractApiDescription(raw_data, extracted_content) ==
    OrElse(RootField(raw_data, api_desc_fields, 500),
           IF Len(extracted_content) > 0
           THEN Some("Structured API data containing "
                     \o IntText(Len(extracted_content)) \o " items")
           ELSE None)

\* lines 103-143: the PageAnalysis made of the ApiAnalysis; response_data is
\* the argument of analyze_api_as_page, not what analyze_api_response fetched
PageOfApiAnalysis(url, response_data, api_analysis) ==
    IF Truthy(api_analysis.error_message)
    THEN ErrorResult(url, "api", api_analysis.error_message[1], "error")
    ELSE OrErrorResult(url, "api",
             ScoredPageAnalysis(
                 [PageAnalysis(url, "api", "success", None, << >>, << >>,
                               ExtractApiLinks(api_analysis.extracted_content))
                  EXCEPT !.title = ExtractApiTitle(response_data,
                                                   api_analysis.extracted_content),
                         !.description =
                             ExtractApiDescription(response_data,
                                                   api_analysis.extracted_content)],
                 Scores(Min(api_analysis.data_quality, ScoreScale),
                        ApiQualityScore(api_analysis.data_quality),
                        ApiFreshnessScore(api_analysis.extracted_content))))

\* ApiAnalyzer.analyze_api_as_page(url): response_data is None, the data
\* analyze_api_response fetches stay local to it
ApiAnalyzeData(config, url, fetch, data) ==
    PageOfApiAnalysis(url, JNull, AnalyzeApiResponse(config, url, fetch, data))

\* ApiAnalyzer.analyze_api_as_page(url, response_data): nothing is fetched
ApiAnalyzeSupplied(url, response_data) ==
    PageOfApiAnalysis(url, response_data,
                      ApiAnalysisOfContent(url, ExtractContent(response_data)))

\* the response of tests/conftest.py sample_json_api
SampleApiData ==
    JDict([data |-> JList(
                << JDict([id |-> JStr("1"), title |-> JStr("Test Item 1"),
                          content |-> JStr("Content for test item 1"),
                          url |-> JStr("https://example.com/item1"),
                          date |-> JStr("2024-07-01T12:00:00Z")], "{...}"),
                   JDict([id |-> JStr("2"), title |-> JStr("Test Item 2"),
                          content |-> JStr("Content for test item 2"),
                          url |-> JStr("https://example.com/item2"),
                          date |-> JStr("2024-06-30T12:00:00Z")], "{...}") >>,
                "[...]"),
           meta |-> JDict([total |-> JNum("2"), page |-> JNum("1")], "{...}")],
          "{...}")

ApiAnalyze(config, url, fetch) == ApiAnalyzeData(config, url, fetch, SampleApiData)

(***************************************************************************)
(* AnalysisManager.analyze_page, in its two halves: up to the extractor's  *)
(* GET (no suspension point before it), and from the GET's outcome on.     *)
(***************************************************************************)
\* the handler `except Exception as e` of analyze_page; the mutant lets the
\* exception leave analyze_page
CatchAllReraising(url, outcome) == outcome

CatchAll(url, outcome) ==
    IF outcome.raised
    THEN Returned(ErrorResult(url, "unknown", outcome.text, "error"))
    ELSE outcome

\* lines 55-64 and 75-84: [done, result] when the call ends before any GET,
\* else [done, route]; `analyzers` is the analyzers' stored configurations
\* after it
EntryResult(url, merged, detected_type, updated) ==
    IF merged.raised
    THEN [done |-> TRUE, result |-> CatchAll(url, merged), route |-> "",
          analyzers |-> updated]
    ELSE IF detected_type.raised
    THEN [done |-> TRUE, result |-> CatchAll(url, detected_type), route |-> "",
          analyzers |-> updated]
    ELSE [done |-> FALSE, result |-> Returned(ErrorResult(url, "unknown", "", "error")),
          route |-> detected_type.value, analyzers |-> updated]

\* lines 56-58: `if options:` the merged configuration is handed to the
\* analyzers when it differs from the manager's
EntryMerged(base, analyzers, url, merged, detected_type) ==
    EntryResult(url, merged, detected_type,
                IF ~merged.raised /\ merged.value # base
                THEN UpdateAnalyzerConfigs(analyzers, merged.value)
                ELSE analyzers)

AnalyzePageEntry(base, analyzers, url, content_type, options) ==
    EntryMerged(base, analyzers, url,
                IF DOMAIN options # {} THEN MergeConfigWithOptions(base, options)
                ELSE Returned(base),
                DetectContentType(url, content_type))

\* lines 66-73: the extractor the route names, under its stored configuration
AnalyzePageRoute(analyzers, url, route, fetch) ==
    CatchAll(url,
        Returned(IF route \in {"rss", "atom"} THEN FeedAnalyze(analyzers.feed, url, fetch)
                 ELSE IF route = "api" THEN ApiAnalyze(analyzers.api, url, fetch)
                 ELSE HtmlAnalyze(analyzers.html, url, fetch)))

(***************************************************************************)
(* AnalysisManager.analyze_batch, lines 113-139: the aggregation of what   *)
(* gather(return_exceptions=True) hands back.                              *)
(***************************************************************************)
IsSuccess(r) == ~r.raised /\ r.value.status = "success"

\* the error strings one result contributes
ErrorsOf(url, r) ==
    IF r.raised THEN << url \o ": " \o r.text >>
    ELSE IF r.value.status = "success" THEN << >>
    ELSE IF Truthy(r.value.error_message)
         THEN << r.value.url \o ": " \o r.value.error_message[1] >>
         ELSE << >>

RECURSIVE ErrorsList(_, _)
ErrorsList(urls, results) ==
    IF Len(results) = 0 THEN << >>
    ELSE ErrorsOf(urls[1], results[1]) \o ErrorsList(Tail(urls), Tail(results))

\* mutants of the aggregation: the successes up to the first failure only, and
\* the failures that carry an error message only
RECURSIVE SuccessListUntilFailure(_)
SuccessListUntilFailure(results) ==
    IF Len(results) = 0 \/ ~IsSuccess(results[1]) THEN << >>
    ELSE << results[1].value >> \o SuccessListUntilFailure(Tail(results))

RECURSIVE FailedListWithMessage(_, _)
FailedListWithMessage(urls, results) ==
    IF Len(results) = 0 THEN << >>
    ELSE ErrorsOf(urls[1], results[1]) \o FailedListWithMessage(Tail(urls), Tail(results))

RECURSIVE FailedList(_, _)
FailedList(urls, results) ==
    IF Len(results) = 0 THEN << >>
    ELSE (IF IsSuccess(results[1]) THEN << >>
          ELSE IF results[1].raised THEN << urls[1] >> ELSE << results[1].value.url >>)
         \o FailedList(Tail(urls), Tail(results))

RECURSIVE SuccessList(_)
SuccessList(results) ==
    IF Len(results) = 0 THEN << >>
    ELSE (IF IsSuccess(results[1]) THEN << results[1].value >> ELSE << >>)
         \o SuccessList(Tail(results))

BatchAnalysisResponse(total, successes, failures, errors) ==
    [kind |-> "batch", total_requested |-> total,
     successful_analyses |-> Len(successes), failed_analyses |-> Len(failures),
     results |-> successes, errors |-> errors]

ProcessResults(urls, results) ==
    BatchAnalysisResponse(Len(urls), SuccessList(results),
                          FailedList(urls, results), ErrorsList(urls, results))

(***************************************************************************)
(* The state.                                                              *)
(*   config           AnalysisManager.config, the base configuration       *)
(*   analyzer_config  the config stored in html_analyzer, feed_analyzer    *)
(*                    and api_analyzer                                     *)
(*   semaphore        AnalysisManager._semaphore: None, or the Semaphore   *)
(*                    made by the batch call it is named after             *)
(*   sem_value        the counter of each Semaphore                        *)
(*   batch            each analyze_batch call: where it is, its arguments  *)
(*   task             each call's _analyze_with_semaphore tasks            *)
(*   response         what each call handed back                           *)
(*   call             a direct analyze_page call                           *)
(*   meta             a get_page_metadata call                             *)
(*   cl               a _detect_content_type evaluation                    *)
(*   client           the fetch handle of each of the manager's extractors *)
(*   shutdown         a call of the manager's close()                      *)
(*   ev               a call of one extractor's operation on its own       *)
(***************************************************************************)
VARIABLES config, analyzer_config, semaphore, sem_value, batch, task, response,
          call, meta, cl, ev, client, shutdown

\* the manager's configurations and its extractors' handles
configVars == << config, analyzer_config, client, shutdown >>
batchVars == << semaphore, sem_value, batch, task, response >>
vars == << config, analyzer_config, semaphore, sem_value, batch, task, response,
           call, meta, cl, ev, client, shutdown >>

\* the manager's extractors: html_analyzer, feed_analyzer, api_analyzer
Extractors == {"html", "feed", "api"}

\* the analyze_batch calls the model follows
BatchIds == {1, 2}

\* server.py's limit on the URL list of one batch
MaxBatchUrls == 50

RECURSIVE SeqsUpTo(_, _)
\* the sequences over S of length at most n
SeqsUpTo(S, n) ==
    IF n = 0 THEN { << >> }
    ELSE LET shorter == SeqsUpTo(S, n - 1)
         IN  shorter \cup {Append(q, x) : q \in shorter, x \in S}

IdleBatch == [pc |-> "idle", urls |-> << >>, max_concurrent |-> 0,
              options |-> << >>, via_tool |-> FALSE]
NoResponse == [kind |-> "none"]
IdleCall == [pc |-> "idle", url |-> "", content_type |-> None, options |-> << >>,
             route |-> "", outcome |-> None]
\* scoped is the handle of the call's temporary analyzer ("none" before it
\* is made), closes the number of close() calls on it
IdleMeta == [pc |-> "idle", url |-> "", quick_mode |-> FALSE, route |-> "",
             scoped |-> "none", closes |-> 0, fetch |-> None, outcome |-> None]
\* results is what each extractor's close() came to: "pending", "closed" or
\* "raised"
IdleShutdown == [pc |-> "idle", via |-> "",
                 results |-> [a \in Extractors |-> "pending"], outcome |-> None]
IdleEv == [pc |-> "idle", op |-> "", url |-> "", fetch |-> None, doc |-> None,
           config |-> None, scores |-> None, api_analysis |-> None, result |-> None,
           log |-> << >>, candidates |-> << >>, feeds_found |-> << >>]
IdleCl == [pc |-> "idle", url |-> "", content_type_hint |-> None, outcome |-> None]

\* AnalysisManager.__init__
InitManager ==
    /\ config \in BaseConfigs
    /\ analyzer_config = [a \in {"html", "feed", "api"} |-> config]
    /\ semaphore = None
    /\ sem_value = [b \in BatchIds |-> 0]
    /\ batch = [b \in BatchIds |-> IdleBatch]
    /\ task = [b \in BatchIds |-> << >>]
    /\ response = [b \in BatchIds |-> NoResponse]
    /\ client = [a \in Extractors |-> "open"]
    /\ shutdown = IdleShutdown

Init ==
    /\ InitManager
    /\ call = IdleCall
    /\ meta = IdleMeta
    /\ cl = IdleCl
    /\ ev = IdleEv

(***************************************************************************)
(* analyze_batch, lines 99-111: the Semaphore, one task per URL, gather.   *)
(* With no URL gather() is done at once and the call runs to its end.      *)
(***************************************************************************)
NewTask == [pc |-> "created", sem |-> 0, route |-> "", runs |-> 0, result |-> None]

\* the tasks of the other batches
OtherTasks(b) == {<< o, i >> \in (BatchIds \ {b}) \X (1..(MaxBatchUrls + 1)) :
                     i <= Len(task[o])}

\* The Semaphore a batch creates is named by the batch, so a batch is launched
\* again only when no task of another batch still holds the one it created
\* before.  The first steps of the tasks one gather made run back to back, so
\* a batch is launched before or after them, not in between.
LaunchBatch(b, urls, max_concurrent, options, via_tool) ==
    /\ batch[b].pc = "idle"
    /\ \A t \in OtherTasks(b) :
          ~(task[t[1]][t[2]].pc \in {"waiting", "running"} /\ task[t[1]][t[2]].sem = b)
    /\ \A o \in BatchIds \ {b} :
          \/ \A i \in 1..Len(task[o]) : task[o][i].pc = "created"
          \/ \A i \in 1..Len(task[o]) : task[o][i].pc # "created"
    /\ semaphore' = Some(b)
    /\ sem_value' = [sem_value EXCEPT ![b] = max_concurrent]
    /\ task' = [task EXCEPT ![b] = [i \in 1..Len(urls) |-> NewTask]]
    /\ batch' = [batch EXCEPT ![b] =
                    [pc |-> IF Len(urls) = 0 THEN "done" ELSE "gather",
                     urls |-> urls, max_concurrent |-> max_concurrent,
                     options |-> options, via_tool |-> via_tool]]
    /\ response' = [response EXCEPT ![b] =
                       IF Len(urls) = 0 THEN ProcessResults(urls, << >>)
                       ELSE NoResponse]
    /\ UNCHANGED << configVars, call, meta, cl, ev >>

\* a direct call of AnalysisManager.analyze_batch
AnalyzeBatch(b, urls, max_concurrent, options) ==
    LaunchBatch(b, urls, max_concurrent, options, FALSE)

(***************************************************************************)
(* server.analyze_batch, the tool: lines 131-155.                          *)
(***************************************************************************)
Clamp(lo, x, hi) == IF x < lo THEN lo ELSE IF x > hi THEN hi ELSE x

\* lines 133-137: the error the tool answers with, or None
ToolRejection(urls) ==
    IF Len(urls) = 0 THEN Some("No URLs provided")
    ELSE IF Len(urls) > MaxBatchUrls THEN Some("Too many URLs. Maximum is 50.")
    ELSE None

ToolAnalyzeBatch(b, urls, max_concurrent, extract_links) ==
    IF ToolRejection(urls) # None
    THEN /\ batch[b].pc = "idle"
         /\ batch' = [batch EXCEPT ![b] =
                [IdleBatch EXCEPT !.pc = "rejected", !.urls = urls, !.via_tool = TRUE]]
         /\ response' = [response EXCEPT ![b] =
                [kind |-> "error", error |-> ToolRejection(urls)[1]]]
         /\ UNCHANGED << configVars, semaphore, sem_value, task, call, meta, cl, ev >>
    ELSE LaunchBatch(b, urls, Clamp(1, max_concurrent, 10),
                     [extract_links |-> extract_links, discover_feeds |-> TRUE,
                      extract_main_content |-> TRUE, timeout |-> Clamp(5, 30, 120)],
                     TRUE)

(***************************************************************************)
(* _analyze_with_semaphore: `async with self._semaphore` around            *)
(* analyze_page(url, options=options).                                     *)
(***************************************************************************)
\* Semaphore.acquire goes on without waiting when the counter is positive;
\* the mutant is a gate that never closes
CanAcquireAlways(value) == TRUE

CanAcquire(value) == value > 0

\* Semaphore.release, run by __aexit__ however the body ended; the mutant
\* releases only after a success
ReleaseOnSuccess(value, outcome) ==
    IF ~outcome.raised /\ outcome.value.status = "success" THEN value + 1 ELSE value

Release(value, outcome) == value + 1

\* the task holds a permit of Semaphore s and enters analyze_page, which runs
\* to the extractor's GET, or to its end when the options are refused
TaskEnters(b, i, s, entry) ==
    /\ analyzer_config' = entry.analyzers
    /\ IF entry.done
       THEN /\ task' = [task EXCEPT ![b][i] =
                    [pc |-> "done", sem |-> s, route |-> "",
                     runs |-> @.runs + 1, result |-> Some(entry.result)]]
            /\ sem_value' = [sem_value EXCEPT ![s] = Release(@ - 1, entry.result)]
       ELSE /\ task' = [task EXCEPT ![b][i] =
                    [pc |-> "running", sem |-> s, route |-> entry.route,
                     runs |-> @.runs + 1, result |-> None]]
            /\ sem_value' = [sem_value EXCEPT ![s] = @ - 1]
    /\ UNCHANGED << config, client, shutdown, semaphore, batch, response, call, meta,
                    cl, ev >>

EnterAnalyze(b, i, s) ==
    TaskEnters(b, i, s, AnalyzePageEntry(config, analyzer_config, batch[b].urls[i],
                                         None, batch[b].options))

\* the task's first step: it reads self._semaphore and acquires, or waits
TaskStart(b, i) ==
    /\ batch[b].pc = "gather"
    /\ i \in 1..Len(task[b])
    /\ task[b][i].pc = "created"
    \* the event loop runs the tasks' first steps in the order gather made them
    /\ \A j \in 1..(i - 1) : task[b][j].pc # "created"
    \* and the tasks of a batch launched earlier go first: of two batches with
    \* tasks yet to start, the later one is the one that set self._semaphore
    /\ \A t \in OtherTasks(b) :
          task[t[1]][t[2]].pc = "created" => semaphore # Some(b)
    /\ semaphore # None
    /\ LET s == semaphore[1]
       IN  IF CanAcquire(sem_value[s])
           THEN EnterAnalyze(b, i, s)
           ELSE /\ task' = [task EXCEPT ![b][i].pc = "waiting", ![b][i].sem = s]
                /\ UNCHANGED << configVars, semaphore, sem_value, batch, response,
                                call, meta, cl, ev >>

\* a waiting task is woken by a release and takes the permit
TaskWake(b, i) ==
    /\ batch[b].pc = "gather"
    /\ i \in 1..Len(task[b])
    /\ task[b][i].pc = "waiting"
    /\ CanAcquire(sem_value[task[b][i].sem])
    /\ EnterAnalyze(b, i, task[b][i].sem)

\* _analyze_with_semaphore, lines 258-259: the call is over, `async with`
\* gives the permit back to the Semaphore the task took it from
TaskEnds(b, i, outcome) ==
    /\ task' = [task EXCEPT ![b][i].pc = "done", ![b][i].result = Some(outcome)]
    /\ sem_value' = [sem_value EXCEPT ![task[b][i].sem] = Release(@, outcome)]

\* the extractor's GET ends: analyze_page returns and the permit is released
TaskFinish(b, i, fetch) ==
    /\ batch[b].pc = "gather"
    /\ i \in 1..Len(task[b])
    /\ task[b][i].pc = "running"
    /\ TaskEnds(b, i, AnalyzePageRoute(analyzer_config, batch[b].urls[i],
                                       task[b][i].route, fetch))
    /\ UNCHANGED << configVars, semaphore, batch, response, call, meta, cl, ev >>

\* gather hands back every task's result, in the order of the URLs
GatherResults(b) == [i \in 1..Len(task[b]) |-> task[b][i].result[1]]

\* lines 111-139: all tasks are done, the results are aggregated
GatherDone(b) ==
    /\ batch[b].pc = "gather"
    /\ \A i \in 1..Len(task[b]) : task[b][i].pc = "done"
    /\ batch' = [batch EXCEPT ![b].pc = "done"]
    /\ response' = [response EXCEPT ![b] = ProcessResults(batch[b].urls, GatherResults(b))]
    /\ UNCHANGED << configVars, semaphore, sem_value, task, call, meta, cl, ev >>

\* the caller has its answer; the manager lives on for the next call
BatchReturn(b) ==
    /\ batch[b].pc \in {"done", "rejected"}
    /\ batch' = [batch EXCEPT ![b] = IdleBatch]
    /\ task' = [task EXCEPT ![b] = << >>]
    /\ response' = [response EXCEPT ![b] = NoResponse]
    /\ UNCHANGED << configVars, semaphore, sem_value, call, meta, cl, ev >>

(***************************************************************************)
(* A direct call of AnalysisManager.analyze_page(url, content_type,        *)
(* options): it runs to the extractor's GET, resumes when the GET ends.    *)
(***************************************************************************)
CallEnters(url, content_type, options, entry) ==
    /\ analyzer_config' = entry.analyzers
    /\ call' = [pc |-> IF entry.done THEN "returned" ELSE "fetching",
                url |-> url, content_type |-> content_type, options |-> options,
                route |-> entry.route,
                outcome |-> IF entry.done THEN Some(entry.result) ELSE None]

AnalyzePage(url, content_type, options) ==
    /\ call.pc = "idle"
    /\ CallEnters(url, content_type, options,
                  AnalyzePageEntry(config, analyzer_config, url, content_type, options))
    /\ UNCHANGED << config, client, shutdown, batchVars, meta, cl, ev >>

AnalyzePageFetched(fetch) ==
    /\ call.pc = "fetching"
    /\ call' = [call EXCEPT !.pc = "returned",
                   !.outcome = Some(AnalyzePageRoute(analyzer_config, call.url,
                                                     call.route, fetch))]
    /\ UNCHANGED << configVars, batchVars, meta, cl, ev >>

AnalyzePageReturn ==
    /\ call.pc = "returned"
    /\ call' = IdleCall
    /\ UNCHANGED << configVars, batchVars, meta, cl, ev >>

(***************************************************************************)
(* AnalysisManager.get_page_metadata(url, quick_mode).  Quick mode makes a *)
(* temporary HtmlAnalyzer under QuickConfig and closes it in `finally`;    *)
(* full mode calls analyze_page(url) and projects the analysis.            *)
(***************************************************************************)
PageMetadata(url, content_type, error_message) ==
    [url |-> url, content_type |-> content_type, error_message |-> error_message]

\* AnalysisManager._metadata_error_result
MetadataErrorResult(url, error_msg) == PageMetadata(url, "unknown", Some(error_msg))

\* lines 238-251: the projection of a PageAnalysis
MetadataOf(analysis) ==
    PageMetadata(analysis.url, analysis.content_type, analysis.error_message)

\* lines 236-254: what full mode makes of the way analyze_page ended
FullMetadata(url, outcome) ==
    IF outcome.raised THEN MetadataErrorResult(url, outcome.text)
    ELSE MetadataOf(outcome.value)

\* lines 234-236: full mode goes through analyze_page
MetadataEnters(url, entry) ==
    /\ analyzer_config' = entry.analyzers
    /\ meta' = [IdleMeta EXCEPT
                   !.pc = IF entry.done THEN "returned" ELSE "fetching",
                   !.url = url, !.route = entry.route,
                   !.outcome = IF entry.done
                               THEN Some(FullMetadata(url, entry.result))
                               ELSE None]

GetPageMetadata(url, quick_mode) ==
    /\ meta.pc = "idle"
    /\ IF quick_mode
       THEN /\ meta' = [IdleMeta EXCEPT !.pc = "fetching", !.url = url,
                                        !.quick_mode = TRUE, !.scoped = "open"]
            /\ UNCHANGED analyzer_config
       ELSE MetadataEnters(url, AnalyzePageEntry(config, analyzer_config, url,
                                                 None, << >>))
    /\ UNCHANGED << config, client, shutdown, batchVars, call, cl, ev >>

\* lines 199-232 after the temporary analyzer's GET
QuickMetadata(url, fetch) ==
    IF HtmlFetchPage(QuickConfig, fetch) = None
    THEN MetadataErrorResult(url, "Failed to fetch page")
    ELSE LET content_type == DetectContentType(url, None)
         IN  IF content_type.raised
             THEN MetadataErrorResult(url, content_type.text)
             ELSE PageMetadata(url, content_type.value, None)

\* the mutant closes the manager's html analyzer in place of the temporary one
QuickFinallyOnManager(m, clients) ==
    [meta |-> m, client |-> [clients EXCEPT !["html"] = "closed"]]

\* lines 231-232, `finally: await html_analyzer.close()`: however the block
\* is left, the temporary analyzer of line 195 is closed; the manager's own
\* analyzers are not touched
QuickFinally(m, clients) ==
    [meta |-> [m EXCEPT !.scoped = "closed", !.closes = @ + 1], client |-> clients]

\* the call after its GET: the result of the quick block or of analyze_page
MetadataFetched(m, configs, fetch) ==
    [m EXCEPT !.pc = "returned",
              !.fetch = Some(fetch),
              !.outcome =
                  IF m.quick_mode THEN Some(QuickMetadata(m.url, fetch))
                  ELSE Some(FullMetadata(m.url,
                           AnalyzePageRoute(configs, m.url, m.route, fetch)))]

\* the call leaves its block: quick mode through the `finally`
MetadataLeaves(fetched, clients) ==
    /\ meta' = IF fetched.quick_mode THEN QuickFinally(fetched, clients).meta
               ELSE fetched
    /\ client' = IF fetched.quick_mode THEN QuickFinally(fetched, clients).client
                 ELSE clients

GetPageMetadataFetched(fetch) ==
    /\ meta.pc = "fetching"
    /\ MetadataLeaves(MetadataFetched(meta, analyzer_config, fetch), client)
    /\ UNCHANGED << config, analyzer_config, shutdown, batchVars, call, cl, ev >>

GetPageMetadataReturn ==
    /\ meta.pc = "returned"
    /\ meta' = IdleMeta
    /\ UNCHANGED << configVars, batchVars, call, cl, ev >>

(***************************************************************************)
(* AnalysisManager.close and __aexit__, lines 318-333: asyncio.gather runs *)
(* the three extractors' close() and, with return_exceptions=True, waits   *)
(* for all of them and hands the exceptions back as results.  A close()    *)
(* is client.aclose(), which ends or raises; what a raising aclose leaves  *)
(* of the handle is written "broken".                                      *)
(***************************************************************************)
\* the mutant is a gather without return_exceptions: the first exception
\* ends the call
GatherRaising(results) ==
    IF \E a \in Extractors : results[a] = "raised" THEN Some(Raised("close failed"))
    ELSE IF \A a \in Extractors : results[a] # "pending" THEN Some(Returned("None"))
    ELSE None

\* lines 320-325: how the gather, and with it close(), ends: not before every
\* close() has ended, and then without an exception
Gather(results) ==
    IF \A a \in Extractors : results[a] # "pending" THEN Some(Returned("None"))
    ELSE None

CloseEnters(via) ==
    /\ shutdown.pc = "idle"
    /\ shutdown' = [IdleShutdown EXCEPT !.pc = "gathering", !.via = via]
    /\ UNCHANGED << config, analyzer_config, client, batchVars, call, meta, cl, ev >>

\* await manager.close()
Close == CloseEnters("close")

\* leaving `async with manager`, lines 331-333
AExit == CloseEnters("aexit")

\* one extractor's close(), lines 480-482 of html_analyzer.py and the same in
\* the other two
AnalyzerClose(a, raises) ==
    /\ shutdown.pc = "gathering"
    /\ shutdown.results[a] = "pending"
    /\ shutdown' = [shutdown EXCEPT
                       !.results[a] = IF raises THEN "raised" ELSE "closed"]
    /\ client' = [client EXCEPT ![a] = IF raises THEN "broken" ELSE "closed"]
    /\ UNCHANGED << config, analyzer_config, batchVars, call, meta, cl, ev >>

CloseReturn ==
    /\ shutdown.pc = "gathering"
    /\ Gather(shutdown.results) # None
    /\ shutdown' = [shutdown EXCEPT !.pc = "returned",
                                    !.outcome = Gather(shutdown.results)]
    /\ UNCHANGED << config, analyzer_config, client, batchVars, call, meta, cl, ev >>

\* a quick-mode get_page_metadata call may be under way while the manager
\* is closed: it fetches through its own analyzer
NextClose ==
    \/ Close
    \/ AExit
    \/ \E a \in Extractors, raises \in BOOLEAN : AnalyzerClose(a, raises)
    \/ CloseReturn
    \/ \E url \in {PageUrl, BadUrl} : GetPageMetadata(url, TRUE)
    \/ \E fetch \in {FetchOk, FetchTimeout} : GetPageMetadataFetched(fetch)
    \/ GetPageMetadataReturn

SpecClose == Init /\ [][NextClose]_vars

(***************************************************************************)
(* Spec: one caller of the batch operation, one batch at a time.           *)
(***************************************************************************)
Urls == {PageUrl, FeedUrl}
UrlLists == SeqsUpTo(Urls, MaxUrls)
LongUrlList == [i \in 1..(MaxBatchUrls + 1) |-> PageUrl]
\* the positions a task can have in a batch
TaskIds == 1..(MaxBatchUrls + 1)

\* per-call options: none, an override with an unrecognized key, a timeout
\* outside 5..120
NoOptions == << >>
LinksOption == [extract_links |-> TRUE, no_such_option |-> TRUE]
BadTimeoutOption == [timeout |-> 200]
OptionSets == {NoOptions, LinksOption, BadTimeoutOption}
BatchOptionSets == {NoOptions, BadTimeoutOption}
\* the lists handed to the tool: the short ones, for its checks and its clamp
ToolUrlLists == SeqsUpTo(Urls, 1) \cup {LongUrlList}

BatchFetchOutcomes == {FetchOk, FetchTimeout, FetchRefused, FetchReadError}

Next ==
    \/ \E urls \in UrlLists, mc \in 1..MaxConcurrent, options \in BatchOptionSets :
          AnalyzeBatch(1, urls, mc, options)
    \/ \E mc \in 1..MaxConcurrent : AnalyzeBatch(1, LongUrlList, mc, BadTimeoutOption)
    \/ \E urls \in ToolUrlLists, mc \in 0..MaxConcurrent, extract_links \in BOOLEAN :
          ToolAnalyzeBatch(1, urls, mc, extract_links)
    \/ \E i \in TaskIds : TaskStart(1, i)
    \/ \E i \in TaskIds : TaskWake(1, i)
    \/ \E i \in TaskIds, fetch \in BatchFetchOutcomes : TaskFinish(1, i, fetch)
    \/ GatherDone(1)
    \/ BatchReturn(1)

Spec == Init /\ [][Next]_vars

\* the scheduling the event loop and the network give: a task that can take
\* a step is run, every GET ends, gather resumes its caller
FairSpec ==
    /\ Spec
    /\ WF_vars(\E i \in TaskIds : TaskStart(1, i))
    /\ WF_vars(\E i \in TaskIds : TaskWake(1, i))
    /\ WF_vars(\E i \in TaskIds, fetch \in BatchFetchOutcomes : TaskFinish(1, i, fetch))
    /\ WF_vars(GatherDone(1))

(***************************************************************************)
(* SpecOverlap: two analyze_batch calls on one manager, each launched      *)
(* while the other may be in progress.                                     *)
(***************************************************************************)
OverlapUrls == << << PageUrl, PageUrl >>, << FeedUrl, PageUrl >> >>
OverlapFetchOutcomes == {FetchOk, FetchTimeout}

NextOverlap ==
    \/ \E b \in BatchIds, mc \in 1..MaxConcurrent :
          AnalyzeBatch(b, OverlapUrls[b], mc, NoOptions)
    \/ \E b \in BatchIds, i \in 1..2 : TaskStart(b, i)
    \/ \E b \in BatchIds, i \in 1..2 : TaskWake(b, i)
    \/ \E b \in BatchIds, i \in 1..2, fetch \in OverlapFetchOutcomes :
          TaskFinish(b, i, fetch)
    \/ \E b \in BatchIds : GatherDone(b)
    \/ \E b \in BatchIds : BatchReturn(b)

SpecOverlap == Init /\ [][NextOverlap]_vars

(***************************************************************************)
(* SpecCalls: one manager serving a direct analyze_page call, a            *)
(* get_page_metadata call and a two-URL batch that overlap freely.         *)
(***************************************************************************)
CallUrls == {PageUrl, FeedUrl, BadUrl}
\* no hint, and the documented hint that leaves the decision to the URL
CallHints == {None, Some("auto")}
CallFetchOutcomes == {FetchOk, FetchTimeout}
CallBatchUrls == << PageUrl, FeedUrl >>

NextCalls ==
    \/ \E url \in CallUrls, content_type \in CallHints, options \in OptionSets :
          AnalyzePage(url, content_type, options)
    \/ \E fetch \in CallFetchOutcomes : AnalyzePageFetched(fetch)
    \/ AnalyzePageReturn
    \/ \E url \in {PageUrl, BadUrl}, quick_mode \in BOOLEAN : GetPageMetadata(url, quick_mode)
    \/ \E fetch \in CallFetchOutcomes : GetPageMetadataFetched(fetch)
    \/ GetPageMetadataReturn
    \/ \E options \in {LinksOption, BadTimeoutOption} :
          AnalyzeBatch(2, CallBatchUrls, 1, options)
    \/ \E i \in 1..Len(CallBatchUrls) : TaskStart(2, i)
    \/ \E i \in 1..Len(CallBatchUrls) : TaskWake(2, i)
    \/ \E i \in 1..Len(CallBatchUrls), fetch \in CallFetchOutcomes : TaskFinish(2, i, fetch)
    \/ GatherDone(2)
    \/ BatchReturn(2)

SpecCalls == Init /\ [][NextCalls]_vars

(***************************************************************************)
(* SpecClassify: _detect_content_type applied to a URL and a hint.         *)
(***************************************************************************)
ClassifyHints ==
    {None, Some(""), Some("rss"), Some("RSS"), Some("atom"), Some("Atom"),
     Some("api"), Some("html"), Some("HTML"), Some("auto"), Some("xml")}

Classify(url, content_type_hint) ==
    /\ cl.pc = "idle"
    /\ cl' = [pc |-> "done", url |-> url, content_type_hint |-> content_type_hint,
              outcome |-> Some(DetectContentType(url, content_type_hint))]
    /\ UNCHANGED << configVars, batchVars, call, meta, ev >>

ClassifyReturn ==
    /\ cl.pc = "done"
    /\ cl' = IdleCl
    /\ UNCHANGED << configVars, batchVars, call, meta, ev >>

NextClassify ==
    \/ \E url \in ClassifyUrls, content_type_hint \in ClassifyHints :
          Classify(url, content_type_hint)
    \/ ClassifyReturn

SpecClassify == Init /\ [][NextClassify]_vars

(***************************************************************************)
(* SpecExtract: one extractor operation at a time, on an answer of the     *)
(* server and a document, under the analyzer's stored configuration.       *)
(***************************************************************************)
\* a long article with every tag the quality score looks for, published three
\* days ago and stamped as modified two days from now
RichPage ==
    [SamplePage EXCEPT !.title_len = 40, !.description_len = 120,
                       !.content_len = 2400, !.sentences = 12, !.html_len = 9000,
                       !.has_semantic = TRUE, !.has_lists = TRUE,
                       !.published_date = Some(3), !.last_modified = Some(0 - 2)]

\* an empty document
BarePage ==
    [feed_links |-> << >>, anchors |-> << >>, images |-> << >>,
     title_len |-> 0, description_len |-> 0, content_len |-> 0, sentences |-> 0,
     html_len |-> 0, has_semantic |-> FALSE, has_headings |-> FALSE,
     has_lists |-> FALSE, has_img_alt |-> FALSE,
     published_date |-> Some(4000), last_modified |-> << >>]

\* a page published two days ago whose Last-Modified is 400 days old
RepublishedPage ==
    [SamplePage EXCEPT !.published_date = Some(2), !.last_modified = Some(400)]

HtmlPages == {SamplePage, RichPage, BarePage, RepublishedPage}

\* a page with 12 alternate feed links, one of them twice; 24 images, four
\* of them twice; 56 anchors to other hosts, four of them twice, and anchors
\* to the page's own site: relative, absolute, with the host in capitals,
\* with the default port
PortalPage ==
    [SamplePage EXCEPT
        !.feed_links = [i \in 1..13 |->
                           [href |-> "/feeds/" \o IntText(i % 12) \o ".xml",
                            type |-> "application/rss+xml"]],
        !.images = [i \in 1..28 |-> "/img/" \o IntText(i % 24) \o ".png"],
        !.anchors = << "/about", "https://example.com/contact",
                       "https://EXAMPLE.com/team", "https://example.com:443/jobs" >>
                    \o [i \in 1..60 |->
                           "https://site" \o IntText(i % 56) \o ".example.org/"]]

\* a page whose anchors stay on its site or go to a host of another name
PlainLinksPage ==
    [SamplePage EXCEPT
        !.anchors = << "/about", "https://example.com/contact",
                       "https://www.example.com/", "https://external.com",
                       "https://external.com" >>]

ResourcePages == {SamplePage, PortalPage, PlainLinksPage}

\* configurations an HtmlAnalyzer is built with: every extraction on, every
\* extraction off, the defaults
AllResources ==
    [DefaultConfig EXCEPT !.extract_links = TRUE, !.extract_images = TRUE]
NoResources == [DefaultConfig EXCEPT !.discover_feeds = FALSE]
ExtractConfigs == {AllResources, NoResources, DefaultConfig}

\* twelve full entries, dated from two days ahead to nine days back
BusyFeed ==
    [bozo |-> FALSE, feed_type |-> "atom", title_len |-> 30, description_len |-> 80,
     has_link |-> TRUE,
     entries |-> [i \in 1..12 |->
                    FeedEntry(TRUE, 300, Some(i - 3), Some(i - 3),
                              IF i <= 6 THEN "https://example.com/article1"
                              ELSE "https://example.com/article2")]]

\* a well-formed feed without entries, and a document that is no feed
EmptyFeed == [SampleFeed EXCEPT !.entries = << >>]
BrokenFeed == [SampleFeed EXCEPT !.bozo = TRUE, !.title_len = 0,
                                 !.description_len = 0, !.has_link = FALSE,
                                 !.entries = << >>]

Feeds == {SampleFeed, BusyFeed, EmptyFeed, BrokenFeed}

\* API responses: the fixture; an empty array; an array of strings; an object
\* whose items are fresh, one of them dated in the future; an object one of
\* whose items has neither title nor content; a plain text
FreshApiData ==
    JDict([items |-> JList(
                << JDict([title |-> JStr("Release notes"),
                          body |-> JStr("Everything that changed in this release"),
                          link |-> JStr("https://example.com/item1"),
                          date |-> JStr("2031-01-01")], "{...}"),
                   JDict([title |-> JStr("Roadmap"),
                          body |-> JStr("Everything that is planned for the next one"),
                          link |-> JStr("https://example.com/item1"),
                          date |-> JStr("2025-08-01")], "{...}"),
                   JDict([title |-> JStr("Changelog"),
                          body |-> JStr("Everything that changed in the last one"),
                          link |-> JStr("https://example.com/item2"),
                          date |-> JStr("not a date")], "{...}") >>,
                "[...]")],
          "{...}")

HoleyApiData ==
    JDict([results |-> JList(
                << JDict([title |-> JStr("Test Item 1")], "{...}"),
                   JDict([id |-> JStr("2")], "{...}") >>,
                "[...]")],
          "{...}")

\* mappings with root-level fields: a title and a description; a name only
TitledApiData ==
    JDict([title |-> JStr("Orders API"), description |-> JStr("All orders"),
           items |-> JList(
                << JDict([title |-> JStr("Order 1"),
                          content |-> JStr("Twelve boxes of green tea")], "{...}") >>,
                "[...]")],
          "{...}")

NamedApiData ==
    JDict([name |-> JStr("Stock service"), title |-> JStr(""),
           records |-> JList(
                << JDict([content |-> JStr("Forty boxes of black tea")], "{...}") >>,
                "[...]")],
          "{...}")

ApiDatas ==
    {SampleApiData, JList(<< >>, "[]"),
     JList(<< JStr("first"), JStr("second") >>, "['first', 'second']"),
     FreshApiData, HoleyApiData, JStr("plain text"), TitledApiData, NamedApiData}

HtmlAnalyzerAnalyze(url, fetch, page) ==
    /\ ev.pc = "idle"
    /\ ev' = [IdleEv EXCEPT !.pc = "done", !.op = "html", !.url = url,
                            !.fetch = Some(fetch), !.doc = Some(page),
                            !.config = Some(analyzer_config.html),
                            !.scores = Some(HtmlScores(analyzer_config.html, page)),
                            !.result = Some(HtmlAnalyzePage(analyzer_config.html,
                                                            url, fetch, page))]
    /\ UNCHANGED << configVars, batchVars, call, meta, cl >>

\* HtmlAnalyzer(c).analyze(url): an analyzer built with a configuration of
\* its own
HtmlAnalyzerOf(c, url, fetch, page) ==
    /\ ev.pc = "idle"
    /\ ev' = [IdleEv EXCEPT !.pc = "done", !.op = "html", !.url = url,
                            !.fetch = Some(fetch), !.doc = Some(page),
                            !.config = Some(c),
                            !.scores = Some(HtmlScores(c, page)),
                            !.result = Some(HtmlAnalyzePage(c, url, fetch, page))]
    /\ UNCHANGED << configVars, batchVars, call, meta, cl >>

FeedAnalyzerAnalyzeFeed(url, fetch, feed) ==
    /\ ev.pc = "idle"
    /\ ev' = [IdleEv EXCEPT !.pc = "done", !.op = "feed", !.url = url,
                            !.fetch = Some(fetch), !.doc = Some(feed),
                            !.scores = Some(FeedScores(analyzer_config.feed, feed)),
                            !.result = Some(FeedAnalyzeFeed(analyzer_config.feed,
                                                            url, fetch, feed))]
    /\ UNCHANGED << configVars, batchVars, call, meta, cl >>

\* the scores analyze_api_as_page computes from an ApiAnalysis without error
ApiScores(api_analysis) ==
    IF Truthy(api_analysis.error_message) THEN Scores(0, 0, 0)
    ELSE Scores(Min(api_analysis.data_quality, ScoreScale),
                ApiQualityScore(api_analysis.data_quality),
                ApiFreshnessScore(api_analysis.extracted_content))

ApiAsPage(url, fetch, data, api_analysis) ==
    /\ ev.pc = "idle"
    /\ ev' = [IdleEv EXCEPT !.pc = "done", !.op = "api", !.url = url,
                            !.fetch = Some(fetch), !.doc = Some(data),
                            !.scores = Some(ApiScores(api_analysis)),
                            !.api_analysis = Some(api_analysis),
                            !.result = Some(PageOfApiAnalysis(url, JNull,
                                                              api_analysis))]
    /\ UNCHANGED << configVars, batchVars, call, meta, cl >>

\* analyze_api_as_page(url, response_data) with the caller's own data
ApiAnalyzerAnalyzeSuppliedData(url, response_data) ==
    /\ ev.pc = "idle"
    /\ ev' = [IdleEv EXCEPT !.pc = "done", !.op = "api_data", !.url = url,
                            !.doc = Some(response_data),
                            !.result = Some(ApiAnalyzeSupplied(url, response_data))]
    /\ UNCHANGED << configVars, batchVars, call, meta, cl >>

ApiAnalyzerAnalyzeApiAsPage(url, fetch, data) ==
    ApiAsPage(url, fetch, data, AnalyzeApiResponse(analyzer_config.api, url, fetch, data))

RECURSIVE Repeat(_, _)
\* text * n
Repeat(text, n) ==
    IF n = 0 THEN ""
    ELSE IF n % 2 = 0 THEN LET half == Repeat(text, n \div 2) IN half \o half
    ELSE text \o Repeat(text, n - 1)

\* the items _normalize_item is applied to: the specification's example; an
\* item whose first synonyms are empty or null; an item with the first and a
\* later synonym of every slot; an item with a title of 201 and a content of
\* 1001 characters and a numeric id; two items with neither title nor content;
\* an item whose slots are filled from fields of the slots' own names and
\* which has a number, a null, a list of 120 characters and a mapping besides
NormalizeInputs ==
    << [id |-> JStr("1"), name |-> JStr("Foo"), body |-> JStr("Bar"),
        link |-> JStr("https://x/1"), created_at |-> JStr("2024-01-01")],
       [title |-> JStr(""), name |-> JStr("Second"), headline |-> JStr("Third"),
        content |-> JNull, description |-> JStr("Desc"), text |-> JStr("Text"),
        href |-> JStr("https://x/h"), permalink |-> JStr("https://x/p"),
        updated_at |-> JStr("2024-02-02"), timestamp |-> JStr("1700000000"),
        uuid |-> JStr("u-1"), key |-> JStr("k-1")],
       [title |-> JStr("Title"), summary |-> JStr("Summary"),
        content |-> JStr("Content"), message |-> JStr("Message"),
        url |-> JStr("https://x/url"), link |-> JStr("https://x/link"),
        date |-> JStr("2024-03-03"), created_at |-> JStr("2024-04-04"),
        id |-> JStr("i-1"), identifier |-> JStr("i-2")],
       [subject |-> JStr(Repeat("s", 201)), message |-> JStr(Repeat("m", 1001)),
        id |-> JNum("7")],
       [id |-> JStr("2"), link |-> JStr("https://x/2"), date |-> JStr("2024-01-01")],
       [colour |-> JStr("red"), title |-> JStr(""), content |-> JNull],
       [title |-> JStr("Tagged"), content |-> JStr("Body"), views |-> JNum("5"),
        draft |-> JNull,
        tags |-> JList(<< JStr(Repeat("t", 116)) >>, "['" \o Repeat("t", 116) \o "']"),
        author |-> JDict([name |-> JStr("Ann")], "{'name': 'Ann'}")] >>

ApiAnalyzerNormalizeItem(item) ==
    /\ ev.pc = "idle"
    /\ ev' = [IdleEv EXCEPT !.pc = "done", !.op = "normalize", !.doc = Some(item),
                            !.result = Some(NormalizeItem(item))]
    /\ UNCHANGED << configVars, batchVars, call, meta, cl >>

ExtractorReturn ==
    /\ ev.pc = "done"
    /\ ev' = IdleEv
    /\ UNCHANGED << configVars, batchVars, call, meta, cl >>

ExtractFetchOutcomes == FetchOutcomes \cup {FetchOversized}

\* HtmlAnalyzer._generate_summary
Terminators == {".", "!", "?"}
Whitespace == {" ", "\t", "\n"}
MaxSummary == 300

\* str.strip()
Strip(text) ==
    LET inked == {i \in 1..Len(text) : SubSeq(text, i, i) \notin Whitespace}
    IN  IF inked = {} THEN ""
        ELSE SubSeq(text, CHOOSE i \in inked : \A j \in inked : i <= j,
                          CHOOSE i \in inked : \A j \in inked : j <= i)

\* the first position from `from` on that holds no terminator
AfterRun(text, from) ==
    LET plain == {i \in from..Len(text) : SubSeq(text, i, i) \notin Terminators}
    IN  IF plain = {} THEN Len(text) + 1
        ELSE CHOOSE i \in plain : \A j \in plain : i <= j

RECURSIVE SplitAt(_, _)
\* re.split(r'[.!?]+', content): the pieces between the runs of terminators,
\* an empty piece before a leading and after a trailing run
SplitSentences(content) == SplitAt(content, FirstOf(content, Terminators, 1))

SplitAt(content, at) ==
    IF at > Len(content) THEN << content >>
    ELSE << SubSeq(content, 1, at - 1) >>
         \o SplitSentences(SubSeq(content, AfterRun(content, at), Len(content)))

RECURSIVE SummaryFrom(_, _, _)
\* the loop of lines 219-224 from sentence i on: a sentence is appended with
\* ". " while it is not empty and fits, the first other one ends the loop
SummaryAdd(sentences, i, summary, sentence) ==
    IF sentence # "" /\ Len(summary \o sentence) <= MaxSummary
    THEN SummaryFrom(sentences, i + 1, summary \o sentence \o ". ")
    ELSE summary

SummaryFrom(sentences, i, summary) ==
    IF i > Len(sentences) THEN summary
    ELSE SummaryAdd(sentences, i, summary, Strip(sentences[i]))

SummaryOrNone(summary) == IF summary = "" THEN None ELSE Some(Strip(summary))

GenerateSummary(content) ==
    IF content = None \/ content = Some("") THEN None
    ELSE SummaryOrNone(SummaryFrom(SplitSentences(content[1]), 1, ""))

\* main contents: none and empty; three short sentences; a first sentence of
\* 299, of 300 and of 301 characters; sentences of 100 and 198, of 150 and
\* 150 characters; a leading terminator; padded sentences; no terminator at
\* all; an empty sentence between two others
SummaryContents ==
    {None, Some(""),
     Some("Hello world. Second one! Third?"),
     Some(Repeat("a", 299) \o ". Tail."),
     Some(Repeat("a", 300) \o ". Tail."),
     Some(Repeat("a", 301) \o ". Tail."),
     Some(Repeat("b", 100) \o "!" \o Repeat("c", 198) \o "?"),
     Some(Repeat("b", 150) \o "." \o Repeat("c", 150) \o "."),
     Some("... leading"),
     Some("  padded one .\n next one  "),
     Some("no terminator"),
     Some("First. . Third.")}

\* HtmlAnalyzer._generate_summary(content)
HtmlAnalyzerGenerateSummary(content) ==
    /\ ev.pc = "idle"
    /\ ev' = [IdleEv EXCEPT !.pc = "done", !.op = "summary",
                            !.doc = Some([content |-> content]),
                            !.result = Some([summary |-> GenerateSummary(content)])]
    /\ UNCHANGED << configVars, batchVars, call, meta, cl >>

NextExtract ==
    \/ \E fetch \in ExtractFetchOutcomes, page \in HtmlPages :
          HtmlAnalyzerAnalyze(PageUrl, fetch, page)
    \/ \E c \in ExtractConfigs, page \in ResourcePages :
          HtmlAnalyzerOf(c, PageUrl, FetchOk, page)
    \/ \E fetch \in ExtractFetchOutcomes, feed \in Feeds :
          FeedAnalyzerAnalyzeFeed(FeedUrl, fetch, feed)
    \/ \E fetch \in ExtractFetchOutcomes, data \in ApiDatas :
          ApiAnalyzerAnalyzeApiAsPage(ApiUrl, fetch, data)
    \/ \E data \in ApiDatas : ApiAnalyzerAnalyzeSuppliedData(ApiUrl, data)
    \/ \E k \in 1..Len(NormalizeInputs) : ApiAnalyzerNormalizeItem(NormalizeInputs[k])
    \/ \E content \in SummaryContents : HtmlAnalyzerGenerateSummary(content)
    \/ ExtractorReturn

SpecExtract == Init /\ [][NextExtract]_vars

(***************************************************************************)
(* SpecDiscover: FeedAnalyzer.discover_feeds, one GET per step, on a web   *)
(* that maps the URLs it serves to their documents; any other URL is       *)
(* answered 404.  ev.log is the list of the URLs fetched so far.           *)
(***************************************************************************)
ServedFeed(feed) == [kind |-> "feed", feed |-> feed]
ServedPage(page) == [kind |-> "html", page |-> page]

BlogUrl == "https://example.com/blog/index.html"

\* a page whose alternate links are rooted, relative, absolute on another
\* host, repeated, equal to a conventional path, not feed-typed, and empty
BlogPage ==
    [BarePage EXCEPT !.feed_links =
        << [href |-> "/a.xml", type |-> "application/rss+xml"],
           [href |-> "rss.xml", type |-> "Application/RSS+XML"],
           [href |-> "https://feeds.example.org/main.atom",
            type |-> "application/atom+xml"],
           [href |-> "/a.xml", type |-> "text/xml"],
           [href |-> "/print.html", type |-> "text/html"],
           [href |-> "/feed", type |-> "application/feed+json"],
           [href |-> "", type |-> "application/rss+xml"] >>]

\* only /feed.xml is a feed
FixtureWeb ==
    (PageUrl :> ServedPage(SamplePage))
    @@ ("https://example.com/feed.xml" :> ServedFeed(SampleFeed))

\* the blog links eleven candidates; the eleventh, /feed.xml, is a feed too
BlogWeb ==
    (BlogUrl :> ServedPage(BlogPage))
    @@ ("https://example.com/a.xml" :> ServedFeed(SampleFeed))
    @@ ("https://example.com/blog/rss.xml" :> ServedFeed(BrokenFeed))
    @@ ("https://feeds.example.org/main.atom" :> ServedFeed(BusyFeed))
    @@ ("https://example.com/rss" :> ServedPage(BarePage))
    @@ ("https://example.com/index.xml" :> ServedFeed(EmptyFeed))
    @@ ("https://example.com/feed.xml" :> ServedFeed(SampleFeed))

\* /feed is a feed, no page is served
FeedOnlyWeb == (FeedUrl :> ServedFeed(SampleFeed))

\* a page without links, and nothing else
BareWeb == (PageUrl :> ServedPage(BarePage))

\* /feed is a feed without entries; the page's /feed.xml is no feed
MixedWeb ==
    (PageUrl :> ServedPage(SamplePage))
    @@ (FeedUrl :> ServedFeed(EmptyFeed))
    @@ ("https://example.com/feed.xml" :> ServedFeed(BrokenFeed))
    @@ ("https://example.com/rss" :> ServedFeed(BusyFeed))

\* a feed whose one entry was published two days ago and carries an update
\* date of 400 days ago; a feed whose sixth entry alone is recent
RevivedFeed ==
    [SampleFeed EXCEPT !.entries =
        << FeedEntry(TRUE, 300, Some(2), Some(400), "https://example.com/article1") >>]
LateFeed ==
    [SampleFeed EXCEPT !.entries =
        [i \in 1..6 |-> FeedEntry(TRUE, 300, IF i = 6 THEN Some(1) ELSE Some(100),
                                  None, "https://example.com/article1")]]

RevivedUrl == "https://example.com/revived.xml"
LateUrl == "https://example.com/late.xml"

ActivityWeb ==
    (RevivedUrl :> ServedFeed(RevivedFeed)) @@ (LateUrl :> ServedFeed(LateFeed))

\* the discover_feeds calls of the model: the URL and the web it is on
DiscoverCases ==
    << [url |-> FeedUrl, web |-> FeedOnlyWeb],
       [url |-> PageUrl, web |-> FixtureWeb],
       [url |-> BlogUrl, web |-> BlogWeb],
       [url |-> PageUrl, web |-> FeedOnlyWeb],
       [url |-> PageUrl, web |-> BareWeb],
       [url |-> FeedUrl, web |-> MixedWeb],
       [url |-> PageUrl, web |-> MixedWeb],
       [url |-> FeedUrl, web |-> FixtureWeb],
       [url |-> RevivedUrl, web |-> ActivityWeb],
       [url |-> LateUrl, web |-> ActivityWeb] >>

\* FeedAnalyzer._is_feed_active: one of the first 5 entries has a date
\* (updated, else published) at most 30 days old
IsFeedActive(entries) ==
    \E i \in 1..Min(Len(entries), 5) :
        LET entry_date == IF entries[i].updated # None THEN entries[i].updated
                          ELSE entries[i].published
        IN  entry_date # None /\ entry_date[1] <= 30

FeedInfo(url, feed_type, entry_count, is_active) ==
    [url |-> url, feed_type |-> feed_type, entry_count |-> entry_count,
     is_active |-> is_active]

\* FeedAnalyzer._analyze_direct_feed: the FeedInfo, or None for a URL that is
\* not served, or whose document feedparser flags and finds no entries in
\* (an HTML page is such a document)
AnalyzeDirectFeed(web, feed_url) ==
    IF feed_url \notin DOMAIN web THEN None
    ELSE IF web[feed_url].kind # "feed" THEN None
    ELSE LET parsed_feed == web[feed_url].feed
         IN  IF parsed_feed.bozo /\ Len(parsed_feed.entries) = 0 THEN None
             ELSE Some(FeedInfo(feed_url, parsed_feed.feed_type,
                                Len(parsed_feed.entries),
                                IsFeedActive(parsed_feed.entries)))

\* the probe list of _discover_feeds_from_page (lines 235-238)
discovery_common_feeds ==
    << "/feed", "/feeds", "/rss", "/rss.xml", "/atom.xml",
       "/feeds/all.atom.xml", "/index.xml", "/feed.xml" >>

\* FeedAnalyzer._discover_feeds_from_page: [] when the page cannot be fetched
DiscoverFeedsFromPage(web, url) ==
    IF url \notin DOMAIN web THEN << >>
    ELSE LET links == IF web[url].kind = "html" THEN web[url].page.feed_links
                      ELSE << >>
             hinted == [i \in 1..Len(links) |->
                           /\ links[i].href # ""
                           /\ \E t \in {"rss", "atom", "xml", "feed"} :
                                 Contains(Lower(links[i].type), t)]
             linked == [i \in 1..Len(links) |-> UrlJoin(url, links[i].href)]
             base_domain == UrlScheme(url) \o "://" \o UrlNetloc(url)
             common == [i \in 1..Len(discovery_common_feeds) |->
                           base_domain \o discovery_common_feeds[i]]
         IN  Dedup(Filter(linked, hinted) \o common)

\* a validation that goes through every candidate
ToValidateAll(discovered_feeds) == discovered_feeds

\* discovered_feeds[:10]
ToValidate(discovered_feeds) == Take(discovered_feeds, 10)

FeedDiscovery(source_url, feeds_found) ==
    [source_url |-> source_url, feeds_found |-> feeds_found,
     total_feeds |-> Len(feeds_found), error_message |-> None]

DiscoverFeedsCall(url, web) ==
    /\ ev.pc = "idle"
    /\ ev' = [IdleEv EXCEPT !.pc = "direct", !.op = "discover", !.url = url,
                            !.doc = Some(web)]
    /\ UNCHANGED << configVars, batchVars, call, meta, cl >>

\* a direct attempt whose success does not end the discovery
DiscoverDirectThenScan ==
    /\ ev.pc = "direct"
    /\ LET direct_feed == AnalyzeDirectFeed(ev.doc[1], ev.url)
       IN  ev' = [ev EXCEPT !.log = Append(@, ev.url), !.pc = "page",
                            !.feeds_found = direct_feed]
    /\ UNCHANGED << configVars, batchVars, call, meta, cl >>

\* lines 51-54: the GET of _analyze_direct_feed(url)
DiscoverDirect ==
    /\ ev.pc = "direct"
    /\ LET direct_feed == AnalyzeDirectFeed(ev.doc[1], ev.url)
       IN  ev' = IF direct_feed # None
                 THEN [ev EXCEPT !.log = Append(@, ev.url), !.pc = "done",
                                 !.feeds_found = direct_feed,
                                 !.result = Some(FeedDiscovery(ev.url, direct_feed))]
                 ELSE [ev EXCEPT !.log = Append(@, ev.url), !.pc = "page"]
    /\ UNCHANGED << configVars, batchVars, call, meta, cl >>

\* lines 56-57: the GET of _discover_feeds_from_page(url)
DiscoverPage ==
    /\ ev.pc = "page"
    /\ LET discovered_feeds == DiscoverFeedsFromPage(ev.doc[1], ev.url)
       IN  ev' = IF Len(ToValidate(discovered_feeds)) = 0
                 THEN [ev EXCEPT !.log = Append(@, ev.url), !.pc = "done",
                                 !.candidates = discovered_feeds,
                                 !.result = Some(FeedDiscovery(ev.url, ev.feeds_found))]
                 ELSE [ev EXCEPT !.log = Append(@, ev.url), !.pc = "validate",
                                 !.candidates = discovered_feeds]
    /\ UNCHANGED << configVars, batchVars, call, meta, cl >>

\* lines 60-63: one turn of the validation loop, the GET of
\* _analyze_direct_feed(feed_url); after the last turn, lines 67-73
DiscoverValidate ==
    /\ ev.pc = "validate"
    /\ LET turn == Len(ev.log) - 1
           feed_url == ToValidate(ev.candidates)[turn]
           feed_info == AnalyzeDirectFeed(ev.doc[1], feed_url)
           feeds_found == ev.feeds_found \o feed_info
       IN  ev' = IF turn = Len(ToValidate(ev.candidates))
                 THEN [ev EXCEPT !.log = Append(@, feed_url), !.pc = "done",
                                 !.feeds_found = feeds_found,
                                 !.result = Some(FeedDiscovery(ev.url, feeds_found))]
                 ELSE [ev EXCEPT !.log = Append(@, feed_url),
                                 !.feeds_found = feeds_found]
    /\ UNCHANGED << configVars, batchVars, call, meta, cl >>

NextDiscover ==
    \/ \E k \in 1..Len(DiscoverCases) :
          DiscoverFeedsCall(DiscoverCases[k].url, DiscoverCases[k].web)
    \/ DiscoverDirect
    \/ DiscoverPage
    \/ DiscoverValidate
    \/ ExtractorReturn

SpecDiscover == Init /\ [][NextDiscover]_vars

(***************************************************************************)
(* Properties of the batch operation.                                      *)
(***************************************************************************)
Tasks(b) == 1..Len(task[b])
\* the tasks of batch b that hold a permit, inside analyze_page
InFlight(b) == {i \in Tasks(b) : task[b][i].pc = "running"}
Finished(b) == batch[b].pc = "done" /\ response[b].kind = "batch"
Succeeded(b) == {i \in Tasks(b) : task[b][i].pc = "done" /\ IsSuccess(task[b][i].result[1])}
Failing(b) == {i \in Tasks(b) : task[b][i].pc = "done" /\ ~IsSuccess(task[b][i].result[1])}

\* C1: while a batch is the only one in progress (Spec runs one batch at a
\* time), the number of its tasks inside analyze_page never exceeds its
\* max_concurrent, whatever the order of the tasks' steps
C1_GateBound ==
    batch[1].pc = "gather" => Cardinality(InFlight(1)) <= batch[1].max_concurrent

\* C1's case: the gate is full and a further task waits for a permit
C1_Witness ==
    /\ batch[1].pc = "gather"
    /\ Cardinality(InFlight(1)) = batch[1].max_concurrent
    /\ \E i \in Tasks(1) : task[1][i].pc = "waiting"

\* C2: in a finished batch every task whose own analysis succeeded has its
\* analysis in results, however many siblings failed, and failed_analyses
\* counts each failing task once
C2_FailuresIsolated ==
    Finished(1) =>
        /\ \A i \in Succeeded(1) :
              \E k \in 1..Len(response[1].results) :
                 response[1].results[k] = task[1][i].result[1].value
        /\ response[1].failed_analyses = Cardinality(Failing(1))

\* C2's case: a finished batch whose first task failed, with a sibling that
\* failed too and a sibling that succeeded
C2_Witness ==
    /\ Finished(1)
    /\ 1 \in Failing(1)
    /\ Cardinality(Failing(1)) >= 2
    /\ Succeeded(1) # {}

C4_ErrorPerFailure ==
    Finished(1) => Len(response[1].errors) = response[1].failed_analyses

\* a batch returns only with every task done after exactly one analyze_page
\* call each and with every permit back in the Semaphore
C5_Safe ==
    batch[1].pc = "done" =>
        /\ \A i \in Tasks(1) : task[1][i].pc = "done" /\ task[1][i].runs = 1
        /\ sem_value[1] = batch[1].max_concurrent

\* C5: always C5_Safe, and under the fair scheduling a batch that waits in
\* gather comes to its end, which C5_Safe allows only with every task done
C5_AllTasksComplete ==
    /\ []C5_Safe
    /\ (batch[1].pc = "gather") ~> (batch[1].pc = "done")

\* C5's case: a batch returned after a task had to wait for a permit that a
\* failing sibling gave back
C5_Witness ==
    /\ batch[1].pc = "done"
    /\ Len(batch[1].urls) > batch[1].max_concurrent
    /\ Failing(1) # {}
    /\ sem_value[1] = batch[1].max_concurrent

\* C6 as claimed: a call with no URL or with more than 50 is rejected, launches
\* no task and produces no BatchAnalysisResponse
C6_BadListsRejected ==
    (batch[1].pc # "idle"
       /\ (Len(batch[1].urls) = 0 \/ Len(batch[1].urls) > MaxBatchUrls))
    => /\ batch[1].pc = "rejected"
       /\ Len(task[1]) = 0
       /\ response[1].kind # "batch"


(***************************************************************************)
(* Properties of analyze_page and of the configuration.                    *)
(***************************************************************************)
\* C7: analyze_page never raises; a refused option value or a URL urlparse
\* refuses comes back as a PageAnalysis with content_type unknown, status
\* error and the exception's text as error_message
C7_NeverRaises ==
    call.pc = "returned" =>
        /\ ~call.outcome[1].raised
        /\ call.outcome[1].value.url = call.url
        /\ (call.options = BadTimeoutOption =>
              /\ call.outcome[1].value.content_type = "unknown"
              /\ call.outcome[1].value.status = "error"
              /\ call.outcome[1].value.error_message = Some(ConfigErrorText))
        /\ (call.options # BadTimeoutOption /\ call.url = BadUrl =>
              /\ call.outcome[1].value.content_type = "unknown"
              /\ call.outcome[1].value.status = "error"
              /\ call.outcome[1].value.error_message = Some(UrlParseErrorText))

\* C7's case: a call whose timeout option is out of range has returned the
\* error record
C7_Witness ==
    /\ call.pc = "returned"
    /\ call.options = BadTimeoutOption
    /\ call.outcome # None
    /\ call.outcome[1] = Returned(ErrorResult(call.url, "unknown", ConfigErrorText, "error"))

\* the recognized keys of an options dict
Recognized(options) ==
    [key \in (DOMAIN options) \cap (DOMAIN config) |-> options[key]]

\* C8: no step of analyze_page, analyze_batch or get_page_metadata, however
\* the calls overlap, changes the base configuration or an analyzer's stored
\* configuration, and a call's options merge as their recognized keys alone do
C8_ConfigFrame ==
    [][ /\ config' = config
        /\ analyzer_config' = analyzer_config
        /\ (call.pc = "idle" /\ call'.pc # "idle" =>
               MergeConfigWithOptions(config, call'.options)
                  = MergeConfigWithOptions(config, Recognized(call'.options))) ]_vars

\* C8's case: a call with an overriding option and an unrecognized key has
\* returned while a quick-mode get_page_metadata and a batch with options
\* were under way, and the configurations are the constructor's
C8_Witness ==
    /\ call.pc = "returned"
    /\ call.options = LinksOption
    /\ meta.pc = "returned"
    /\ meta.quick_mode
    /\ batch[2].pc = "done"
    /\ batch[2].options = LinksOption
    /\ analyzer_config = [a \in {"html", "feed", "api"} |-> config]

\* the configuration a call's options ask for
RequestConfig(options) ==
    IF DOMAIN options # {} THEN MergeConfigWithOptions(config, options).value ELSE config

\* what the html route returns for a served page under configuration c
HtmlResultUnder(c, url) == HtmlAnalyze(c, url, FetchOk)

\* C9 as claimed: a successful html analysis, of a direct call or of a batch
\* task, is the one the request-scoped configuration asks for
C9_RequestConfigUsed ==
    /\ (call.pc = "returned" /\ call.route = "html"
          /\ call.outcome[1].value.status = "success"
        => call.outcome[1].value = HtmlResultUnder(RequestConfig(call.options), call.url))
    /\ \A i \in 1..Len(task[2]) :
          (task[2][i].pc = "done" /\ task[2][i].route = "html"
             /\ task[2][i].result[1].value.status = "success"
           => task[2][i].result[1].value
                 = HtmlResultUnder(RequestConfig(batch[2].options), batch[2].urls[i]))

(***************************************************************************)
(* Properties of the classification.                                       *)
(***************************************************************************)
\* C10: a hint that is one of rss, atom, api, html decides the content type,
\* whatever the URL
C10_HintDecides ==
    cl.pc = "done" =>
        \A t \in {"rss", "atom", "api", "html"} :
            cl.content_type_hint = Some(t) => cl.outcome = Some(Returned(t))

\* C10's case: the hint html on a URL whose path matches a feed pattern
C10_Witness ==
    /\ cl.pc = "done"
    /\ cl.url = "https://example.com/api/atom"
    /\ cl.content_type_hint = Some("html")
    /\ cl.outcome = Some(Returned("html"))


\* the hints that name no content type
OtherHints == {None, Some(""), Some("auto"), Some("xml")}

\* the rule of the claim applied by hand to each URL of the model: feed
\* pattern before API pattern before html, on the lower-cased path only
ExpectedTypes ==
    (PageUrl :> "html") @@ (FeedUrl :> "rss") @@ (ApiUrl :> "api")
    @@ (BadUrl :> "rss")
    @@ ("https://example.com" :> "html")
    @@ ("https://example.com/rss.xml" :> "rss")
    @@ ("https://example.com/atom.xml" :> "atom")
    @@ ("https://example.com/data.json" :> "api")
    @@ ("https://Example.com/Feed/API/items" :> "rss")
    @@ ("https://example.com/api/atom" :> "atom")
    @@ ("https://feed.example.com/about?next=/api/" :> "html")
    @@ ("https://example.com/v2/users#/rss" :> "api")
    @@ ("https://example.com/blog/latest.ATOM" :> "atom")
    @@ ("https://example.com/page;type.xml" :> "html")

\* C11 as claimed: without a hint that names a type, every URL gets the type
\* its lower-cased path asks for
C11_PathDecidesEveryUrl ==
    cl.pc = "done" /\ cl.content_type_hint \in OtherHints
    => cl.outcome = Some(Returned(ExpectedTypes[cl.url]))

\* C11, amended: the same for every URL urlparse accepts, the path being
\* urlparse's; a URL urlparse refuses makes _detect_content_type raise
C11_PathDecides ==
    cl.pc = "done" /\ cl.content_type_hint \in OtherHints
    => IF cl.url = BadUrl
       THEN cl.outcome = Some(Raised(UrlParseErrorText))
       ELSE cl.outcome = Some(Returned(ExpectedTypes[cl.url]))

\* C11's case: a mixed-case path with a feed pattern and an API pattern,
\* classified under a hint that names no type
C11_Witness ==
    /\ cl.pc = "done"
    /\ cl.url = "https://Example.com/Feed/API/items"
    /\ cl.content_type_hint = Some("auto")
    /\ cl.outcome = Some(Returned("rss"))


(***************************************************************************)
(* Properties of the extractors.                                           *)
(***************************************************************************)
InUnit(score) == score >= 0 /\ score <= ScoreScale

\* an extractor has handed back a PageAnalysis
Analysed == ev.pc = "done" /\ ev.op \in {"html", "feed", "api"}

\* C12: every score an extractor computes is within [0, 1], so no analysis is
\* refused for its scores, and the PageAnalysis it hands back, a success or
\* a failure, carries scores within [0, 1]; so does ApiAnalysis.data_quality
C12_ScoresInUnit ==
    Analysed =>
        /\ InUnit(ev.scores[1].relevance_score)
        /\ InUnit(ev.scores[1].quality_score)
        /\ InUnit(ev.scores[1].freshness_score)
        /\ InUnit(ev.result[1].relevance_score)
        /\ InUnit(ev.result[1].quality_score)
        /\ InUnit(ev.result[1].freshness_score)
        /\ ev.result[1].error_message # Some(PageAnalysisErrorText)
        /\ (ev.op = "api" => InUnit(ev.api_analysis[1].data_quality))

\* C12's case: an API response of fresh items, one dated in the future, whose
\* data quality is 1.0 and whose quality score is held at 1.0 by the cap
C12_Witness ==
    /\ ev.pc = "done"
    /\ ev.op = "api"
    /\ ev.doc = Some(FreshApiData)
    /\ ev.api_analysis[1].data_quality = ScoreScale
    /\ ev.result[1].status = "success"
    /\ ev.result[1].quality_score = ScoreScale
    /\ ev.result[1].freshness_score > 0

\* C13: a PageAnalysis an extractor returns with status=success has no
\* error_message
C13_SuccessHasNoError ==
    (Analysed /\ ev.result[1].status = "success")
        => ~Truthy(ev.result[1].error_message)

\* C13's case: each of the three extractors has returned a success; here the
\* feed extractor, for a feed with entries
C13_Witness ==
    /\ ev.pc = "done"
    /\ ev.op = "feed"
    /\ ev.doc = Some(BusyFeed)
    /\ ev.result[1].status = "success"
    /\ ev.result[1].error_message = None

\* C14: HtmlAnalyzer.analyze answers a fetch timeout with status=timeout, an
\* HTTP error status with status=error and "HTTP <code>", and any other fetch
\* failure with status=error and another message
C14_DistinctFetchFailures ==
    (ev.pc = "done" /\ ev.op = "html") =>
        LET fetch == ev.fetch[1]
            result == ev.result[1]
        IN  /\ fetch.kind = "timeout" => result.status = "timeout"
            /\ fetch.kind = "http_error" =>
                  /\ result.status = "error"
                  /\ result.error_message = Some("HTTP " \o HttpCodeText(fetch.code))
            /\ fetch.kind = "network_error" =>
                  /\ result.status = "error"
                  /\ result.error_message # Some("HTTP " \o HttpCodeText(fetch.code))
                  /\ result.error_message # Some("Request timeout")

\* C15: on every route, an answer longer than max_content_length is not
\* analysed: the result is no success and carries nothing extracted
C15_OversizedIsFetchFailure ==
    (Analysed /\ ev.fetch[1].length > analyzer_config[ev.op].max_content_length)
        => /\ ev.result[1].status # "success"
           /\ ev.result[1].external_links = << >>
           /\ ev.result[1].feeds_discovered = << >>
           /\ ev.result[1].images = << >>

\* the five canonical slots of a normalized item; None for a slot left empty
canonical_slots == {"title", "content", "url", "date", "id"}
SlotsOf(normalized) ==
    [slot \in canonical_slots |->
        IF slot \in DOMAIN normalized THEN Some(normalized[slot]) ELSE None]

\* what the rule of the claim gives for NormalizeInputs, worked out by hand;
\* None for an item without title and content, which is dropped
NormalizeExpected ==
    << Some([title |-> Some("Foo"), content |-> Some("Bar"),
             url |-> Some("https://x/1"), date |-> Some("2024-01-01"),
             id |-> Some("1")]),
       Some([title |-> Some("Second"), content |-> Some("Desc"),
             url |-> Some("https://x/h"), date |-> Some("2024-02-02"),
             id |-> Some("u-1")]),
       Some([title |-> Some("Title"), content |-> Some("Content"),
             url |-> Some("https://x/url"), date |-> Some("2024-03-03"),
             id |-> Some("i-1")]),
       Some([title |-> Some(Repeat("s", 200)), content |-> Some(Repeat("m", 1000)),
             url |-> None, date |-> None, id |-> Some("7")]),
       None,
       None,
       Some([title |-> Some("Tagged"), content |-> Some("Body"),
             url |-> None, date |-> None, id |-> None]) >>

\* C17: _normalize_item fills each canonical slot with the first synonym of
\* its list that the item holds with a non-empty value, title cut to 200 and
\* content to 1000 characters; an item without title and content is dropped
C17_FirstSynonymFills ==
    (ev.pc = "done" /\ ev.op = "normalize") =>
        \E k \in 1..Len(NormalizeInputs) :
            /\ NormalizeInputs[k] = ev.doc[1]
            /\ IF Len(NormalizeExpected[k]) = 0 THEN IsNone(ev.result[1])
               ELSE /\ ~IsNone(ev.result[1])
                    /\ SlotsOf(ev.result[1]) = NormalizeExpected[k][1]

\* C17's case: the example item has been normalized
C17_Witness ==
    /\ ev.pc = "done"
    /\ ev.op = "normalize"
    /\ ev.doc[1] = NormalizeInputs[1]
    /\ ev.result[1].title = "Foo"
    /\ ev.result[1].content = "Bar"
    /\ ev.result[1].url = "https://x/1"
    /\ ev.result[1].date = "2024-01-01"
    /\ ev.result[1].id = "1"

(***************************************************************************)
(* Properties of discover_feeds.                                           *)
(***************************************************************************)
\* the document the web serves at url parses as a feed
IsFeedOn(web, url) ==
    /\ url \in DOMAIN web
    /\ web[url].kind = "feed"
    /\ ~(web[url].feed.bozo /\ Len(web[url].feed.entries) = 0)

FoundUrls(feeds_found) == [i \in 1..Len(feeds_found) |-> feeds_found[i].url]

\* C18: discover_feeds fetches url itself first; when url is a feed the call
\* ends there, with that one FeedInfo and total_feeds = 1 and nothing else
\* ever fetched; a second GET happens only when url is no feed
C18_DirectFeedFirst ==
    (ev.op = "discover" /\ Len(ev.log) >= 1) =>
        /\ ev.log[1] = ev.url
        /\ IsFeedOn(ev.doc[1], ev.url) =>
              /\ ev.pc = "done"
              /\ ev.log = << ev.url >>
              /\ FoundUrls(ev.result[1].feeds_found) = << ev.url >>
              /\ ev.result[1].total_feeds = 1
        /\ Len(ev.log) >= 2 => ~IsFeedOn(ev.doc[1], ev.url)

\* C18's case: the direct attempt on a feed URL has succeeded
C18_Witness ==
    /\ ev.op = "discover"
    /\ ev.pc = "done"
    /\ ev.url = FeedUrl
    /\ ev.log = << FeedUrl >>
    /\ ev.result[1].total_feeds = 1
    /\ ev.result[1].feeds_found[1].url = FeedUrl

\* the conventional paths on https://example.com, in the order of the probes
ExampleComProbes ==
    << "https://example.com/feed", "https://example.com/feeds",
       "https://example.com/rss", "https://example.com/rss.xml",
       "https://example.com/atom.xml", "https://example.com/feeds/all.atom.xml",
       "https://example.com/index.xml", "https://example.com/feed.xml" >>

\* for each of DiscoverCases, worked out by hand: the URLs validated, in
\* order, and those of them found to be feeds
DiscoverExpected ==
    << [validated |-> << >>, found |-> << FeedUrl >>],
       [validated |-> << "https://example.com/feed.xml" >> \o SubSeq(ExampleComProbes, 1, 7),
        found |-> << "https://example.com/feed.xml" >>],
       [validated |-> << "https://example.com/a.xml",
                         "https://example.com/blog/rss.xml",
                         "https://feeds.example.org/main.atom",
                         "https://example.com/feed" >>
                      \o SubSeq(ExampleComProbes, 2, 7),
        found |-> << "https://example.com/a.xml",
                     "https://feeds.example.org/main.atom",
                     "https://example.com/index.xml" >>],
       [validated |-> << >>, found |-> << >>],
       [validated |-> ExampleComProbes, found |-> << >>],
       [validated |-> << >>, found |-> << FeedUrl >>],
       [validated |-> << "https://example.com/feed.xml" >> \o SubSeq(ExampleComProbes, 1, 7),
        found |-> << "https://example.com/feed", "https://example.com/rss" >>],
       [validated |-> << >>, found |-> << >>],
       [validated |-> << >>, found |-> << RevivedUrl >>],
       [validated |-> << >>, found |-> << LateUrl >>] >>

\* the discovery has ended after a direct attempt that failed
ScanEnded == ev.op = "discover" /\ ev.pc = "done" /\ Len(ev.log) >= 2

\* the candidates as the claim lists them, whatever came of the page's GET
ClaimedCandidates(web, url) ==
    LET links == IF url \in DOMAIN web /\ web[url].kind = "html"
                 THEN web[url].page.feed_links ELSE << >>
        hinted == [i \in 1..Len(links) |->
                      /\ links[i].href # ""
                      /\ \E t \in {"rss", "atom", "xml", "feed"} :
                            Contains(Lower(links[i].type), t)]
        linked == [i \in 1..Len(links) |-> UrlJoin(url, links[i].href)]
        base_domain == UrlScheme(url) \o "://" \o UrlNetloc(url)
        common == [i \in 1..Len(discovery_common_feeds) |->
                      base_domain \o discovery_common_feeds[i]]
    IN  Dedup(Filter(linked, hinted) \o common)

\* C19 as stated: whenever url is no feed, the result holds the feeds among
\* the first 10 of the alternate links followed by the conventional paths
C19_ScanWheneverNoFeed ==
    ScanEnded =>
        LET first10 == Take(ClaimedCandidates(ev.doc[1], ev.url), 10)
        IN  FoundUrls(ev.result[1].feeds_found)
                = Filter(first10, [i \in 1..Len(first10) |->
                                      IsFeedOn(ev.doc[1], first10[i])])

\* C19: when url is no feed and its page is fetched, the feeds found are the
\* feeds among the first 10 candidates (alternate links made absolute, then
\* the conventional paths, without duplicates), in that order, and nothing
\* but these 10 is validated; when the page is not fetched there is no
\* candidate and no feed is found
C19_ScanOfFetchedPage ==
    ScanEnded =>
        \E k \in 1..Len(DiscoverCases) :
            /\ DiscoverCases[k].url = ev.url
            /\ DiscoverCases[k].web = ev.doc[1]
            /\ ev.log = << ev.url, ev.url >> \o DiscoverExpected[k].validated
            /\ FoundUrls(ev.result[1].feeds_found) = DiscoverExpected[k].found
            /\ ev.result[1].total_feeds = Len(ev.result[1].feeds_found)
            /\ ev.result[1].total_feeds <= 10
            /\ Len(DiscoverExpected[k].validated) <= 10
            /\ \A i, j \in 1..Len(ev.candidates) :
                  ev.candidates[i] = ev.candidates[j] => i = j
            /\ (ev.url \notin DOMAIN ev.doc[1]) =>
                  (ev.candidates = << >> /\ ev.result[1].feeds_found = << >>)

\* C19's case: the page with the one alternate link /feed.xml, which alone
\* is a feed
C19_Witness ==
    /\ ScanEnded
    /\ ev.url = PageUrl
    /\ ev.doc[1] = FixtureWeb
    /\ Len(ev.candidates) = 8
    /\ FoundUrls(ev.result[1].feeds_found) = << "https://example.com/feed.xml" >>

(***************************************************************************)
(* Properties of get_page_metadata.                                        *)
(***************************************************************************)
\* the call met a failure: its GET did not bring a page, or its URL is one
\* the URL parser refuses
MetadataFailure ==
    \/ (meta.fetch # None /\ meta.fetch[1].kind # "ok")
    \/ UrlParseRaises(meta.url)

\* C16: in quick mode and in full mode, a get_page_metadata call that met a
\* failure returns a PageMetadata with content_type=unknown and a non-empty
\* error_message
C16_FailureIsUnknown ==
    (meta.pc = "returned" /\ MetadataFailure)
        => /\ meta.outcome[1].content_type = "unknown"
           /\ Truthy(meta.outcome[1].error_message)

(***************************************************************************)
(* Properties of overlapping batches.                                      *)
(***************************************************************************)
\* C20: of two batches in progress on one manager, each has its tasks pass
\* the Semaphore its own analyze_batch call created, and so never has more
\* than its own max_concurrent tasks inside analyze_page
C20_OwnGatePerBatch ==
    \A b \in BatchIds :
        batch[b].pc = "gather" =>
            /\ \A i \in Tasks(b) :
                  task[b][i].pc \in {"waiting", "running"} => task[b][i].sem = b
            /\ Cardinality(InFlight(b)) <= batch[b].max_concurrent


(***************************************************************************)
(* Properties of the freshness scores.                                     *)
(***************************************************************************)
\* the day buckets as the specification lists them, in thousandths
SpecDayBucket(days_old) ==
    IF days_old <= 1 THEN 1000
    ELSE IF days_old <= 7 THEN 800
    ELSE IF days_old <= 30 THEN 600
    ELSE IF days_old <= 90 THEN 400
    ELSE IF days_old <= 365 THEN 200
    ELSE 100

\* the age of the more recent of two optional dates, None when there is none
MoreRecentAge(published_date, last_modified) ==
    IF published_date = None THEN last_modified
    ELSE IF last_modified = None THEN published_date
    ELSE Some(Min(published_date[1], last_modified[1]))

\* HtmlAnalyzer.analyze has scored a page it fetched
HtmlScored ==
    /\ ev.pc = "done"
    /\ ev.op = "html"
    /\ ev.result[1].status = "success"
    /\ ev.config[1].calculate_scores

\* C21: the freshness score of an HTML page is the day bucket of the age of
\* the more recent of last_modified and published_date, 0.0 when the page
\* has neither date; a published_date more recent than last_modified decides
C21_FreshnessOfMoreRecent ==
    HtmlScored =>
        LET age == MoreRecentAge(ev.doc[1].published_date, ev.doc[1].last_modified)
        IN  ev.result[1].freshness_score =
                IF age = None THEN 0 ELSE SpecDayBucket(age[1])


\* the age of a feed entry's date (updated, else published), None without one
EntryAge(entry) == IF entry.updated # None THEN entry.updated ELSE entry.published

\* the age of a record's date, None when it has none that can be parsed
RecordAge(record) ==
    IF Has(record, "date") /\ record["date"] \in DOMAIN DateAges
    THEN Some(DateAges[record["date"]]) ELSE None

\* the specification's weighted average: the day buckets of the ages of the
\* first 10 entries, summed and divided by the number of entries examined
SpecRecencyAverage(ages) ==
    IF Len(ages) = 0 THEN 0
    ELSE LET first10 == Take(ages, 10)
         IN  Min(SumSeq([i \in 1..Len(first10) |->
                            IF first10[i] = None THEN 0
                            ELSE SpecDayBucket(first10[i][1])])
                     \div Len(first10),
                 ScoreScale)

\* C22: the freshness score of a feed and of an API response taken as a page
\* is the sum, over the first 10 entries, of the HTML day bucket (1.0, 0.8,
\* 0.6, 0.4, 0.2, 0.1) of each entry's age, divided by the number of entries
\* examined
C22_SameDayBuckets ==
    /\ (ev.pc = "done" /\ ev.op = "feed" /\ ev.result[1].status = "success"
            /\ analyzer_config.feed.calculate_scores)
        => ev.result[1].freshness_score =
              SpecRecencyAverage([i \in 1..Len(ev.doc[1].entries) |->
                                     EntryAge(ev.doc[1].entries[i])])
    /\ (ev.pc = "done" /\ ev.op = "api" /\ ev.result[1].status = "success")
        => ev.result[1].freshness_score =
              SpecRecencyAverage(
                  [i \in 1..Len(ev.api_analysis[1].extracted_content) |->
                      RecordAge(ev.api_analysis[1].extracted_content[i])])


(***************************************************************************)
(* Properties of ApiAnalyzer's record extraction.                          *)
(***************************************************************************)
\* analyze_api_response has answered for a fetched response that is a mapping
MappingAnalysed ==
    /\ ev.pc = "done"
    /\ ev.op = "api"
    /\ ev.fetch[1].kind = "ok"
    /\ ev.doc[1].type = "dict"

\* the records the specification keeps of a mapping: those of ExtractFromDict
\* that are records, the elements with neither title nor content discarded
KeptRecords(data) ==
    LET made == ExtractFromDict(data)
    IN  Filter(made, [i \in 1..Len(made) |-> ~IsNone(made[i])])

\* C23: of a mapping response, extracted_content holds the normalized
\* elements of the first array-valued priority field that have a title or a
\* content; an element with neither is discarded, never kept as a none
\* entry, and does not make analyze_api_response answer with an error
C23_RecordsHaveTitleOrContent ==
    MappingAnalysed =>
        /\ ~Truthy(ev.api_analysis[1].error_message)
        /\ ev.api_analysis[1].extracted_content = KeptRecords(ev.doc[1])
        /\ \A i \in 1..Len(ev.api_analysis[1].extracted_content) :
              LET record == ev.api_analysis[1].extracted_content[i]
              IN  ~IsNone(record) /\ (Has(record, "title") \/ Has(record, "content"))


(***************************************************************************)
(* Properties of the metadata of a normalized record.                      *)
(***************************************************************************)
\* the fields of the item that filled a canonical slot: of each synonym list
\* the first field the item holds with a true value
ConsumedFields(item) ==
    {field \in DOMAIN item :
        \E fields \in {title_fields, content_fields, url_fields, date_fields, id_fields} :
            \E k \in 1..Len(fields) :
                /\ fields[k] = field
                /\ IsTruthy(item[field])
                /\ \A h \in 1..(k - 1) :
                      ~(fields[h] \in DOMAIN item /\ IsTruthy(item[fields[h]]))}

\* the metadata bag of a record, empty when the record has none
MetadataBag(record) ==
    IF "metadata" \in DOMAIN record THEN record["metadata"] ELSE << >>

\* the fields the specification leaves for the bag
RemainingFields(item) ==
    {key \in DOMAIN item : item[key].type # "NoneType"} \ ConsumedFields(item)

\* _normalize_item has returned a record
Normalized == ev.pc = "done" /\ ev.op = "normalize" /\ ~IsNone(ev.result[1])

\* C24: the metadata of a normalized record holds exactly the item's non-null
\* fields that did not fill a canonical slot: a scalar with its value, a list
\* or a mapping as its text cut to 100 characters; a field that filled a
\* slot is not in it
C24_MetadataIsTheRest ==
    Normalized =>
        /\ DOMAIN MetadataBag(ev.result[1]) = RemainingFields(ev.doc[1])
        /\ \A key \in DOMAIN MetadataBag(ev.result[1]) \cap DOMAIN ev.doc[1] :
              MetadataBag(ev.result[1])[key] =
                  IF ev.doc[1][key].type \in {"list", "dict"}
                  THEN JStr(Truncate(ev.doc[1][key].text, 100))
                  ELSE ev.doc[1][key]


(***************************************************************************)
(* Properties of the title of an API response taken as a page.            *)
(***************************************************************************)
\* analyze_page has routed the URL to ApiAnalyzer.analyze_api_as_page(url),
\* which fetched a mapping and made a page of it
RoutedMappingPage ==
    /\ ev.pc = "done"
    /\ ev.op = "api"
    /\ ev.doc[1].type = "dict"
    /\ ev.result[1].status = "success"

\* C25: the page made of a fetched mapping with a non-empty root-level title
\* or name has that field's value as its title, before the first record's
\* title and the "N items" label; its description is the root-level
\* description when there is one
C25_RootTitleFirst ==
    RoutedMappingPage =>
        /\ RootField(ev.doc[1], << "title", "name" >>, 200) # None
              => ev.result[1].title = RootField(ev.doc[1], << "title", "name" >>, 200)
        /\ RootField(ev.doc[1], << "description" >>, 500) # None
              => ev.result[1].description
                    = RootField(ev.doc[1], << "description" >>, 500)


(***************************************************************************)
(* Properties of FeedInfo.is_active.                                       *)
(***************************************************************************)
\* one of the first 5 entries has a publish date or an update date that is
\* at most 30 days old
HasRecentDate(entries) ==
    \E i \in 1..Min(Len(entries), 5) :
        \/ (entries[i].published # None /\ entries[i].published[1] <= 30)
        \/ (entries[i].updated # None /\ entries[i].updated[1] <= 30)

\* C26: a FeedInfo has is_active = true exactly when one of the feed's first
\* 5 entries has a publish date or an update date at most 30 days old
C26_ActiveIffRecentDate ==
    (ev.op = "discover" /\ ev.pc = "done") =>
        \A i \in 1..Len(ev.result[1].feeds_found) :
            LET feed_info == ev.result[1].feeds_found[i]
            IN  feed_info.is_active
                    = HasRecentDate(ev.doc[1][feed_info.url].feed.entries)


(***************************************************************************)
(* Properties of the resources of an HTML page.                            *)
(***************************************************************************)
\* urlparse(url).hostname: the network location without its port, in lower
\* case
UrlHost(url) ==
    Lower(SubSeq(UrlNetloc(url), 1, FirstOf(UrlNetloc(url), {":"}, 1) - 1))

NoDuplicates(list) == \A i, j \in 1..Len(list) : list[i] = list[j] => i = j

\* HtmlAnalyzer.analyze has returned a page's resources
HtmlResources == ev.pc = "done" /\ ev.op = "html" /\ ev.result[1].status = "success"

\* C27, the bounds: at most 10 feeds, 20 images and 50 external links, each
\* list without duplicates and empty when its option is off
ResourcesBounded ==
    /\ Len(ev.result[1].feeds_discovered) <= 10
    /\ Len(ev.result[1].images) <= 20
    /\ Len(ev.result[1].external_links) <= 50
    /\ NoDuplicates(ev.result[1].feeds_discovered)
    /\ NoDuplicates(ev.result[1].images)
    /\ NoDuplicates(ev.result[1].external_links)
    /\ ~ev.config[1].discover_feeds => ev.result[1].feeds_discovered = << >>
    /\ ~ev.config[1].extract_images => ev.result[1].images = << >>
    /\ ~ev.config[1].extract_links => ev.result[1].external_links = << >>

\* C27: in every PageAnalysis of HtmlAnalyzer the three lists are bounded,
\* free of duplicates and empty when their option is off, and every URL of
\* external_links has a host different from the host of the page
C27_ResourcesBoundedAndExternal ==
    HtmlResources =>
        /\ ResourcesBounded
        /\ \A i \in 1..Len(ev.result[1].external_links) :
              UrlHost(ev.result[1].external_links[i]) # UrlHost(ev.url)

\* the sentences of a content as the summary shows them
StrippedSentences(content) ==
    [i \in 1..Len(SplitSentences(content)) |-> Strip(SplitSentences(content)[i])]

RECURSIVE Joined(_, _)
\* the first k of a list of sentences, each followed by ". "
Joined(sentences, k) ==
    IF k = 0 THEN "" ELSE Joined(sentences, k - 1) \o sentences[k] \o ". "

Summarised == ev.pc = "done" /\ ev.op = "summary"

SummaryIsPrefix ==
    Summarised /\ ev.result[1].summary # None =>
        \E k \in 1..Len(StrippedSentences(ev.doc[1].content[1])) :
            ev.result[1].summary[1] =
                Strip(Joined(StrippedSentences(ev.doc[1].content[1]), k))

\* C28: the summary built from a main content is never longer than 300
\* characters, also when the first sentence has exactly 300 characters, and
\* it is made of the leading sentences of the content split on ".", "!", "?"
C28_SummaryAtMost300 ==
    Summarised /\ ev.result[1].summary # None =>
        /\ Len(ev.result[1].summary[1]) <= MaxSummary
        /\ SummaryIsPrefix

QuickCall == meta.quick_mode /\ meta.pc # "idle"

\* C29: a quick-mode get_page_metadata call makes an extractor of its own
\* and has closed it exactly once when it returns, whether the page was
\* fetched, the fetch failed or the extraction raised; the manager's own
\* html, feed and api extractors stay open throughout
C29_ScopedExtractorClosedOnce ==
    /\ (QuickCall /\ meta.pc = "fetching") => (meta.scoped = "open" /\ meta.closes = 0)
    /\ (QuickCall /\ meta.pc = "returned") => (meta.scoped = "closed" /\ meta.closes = 1)
    /\ \A a \in Extractors : client[a] = "open"

\* C29's case: a quick-mode call whose fetch failed has returned its error
\* with its extractor closed once
C29_Witness ==
    /\ QuickCall
    /\ meta.pc = "returned"
    /\ meta.fetch = Some(FetchTimeout)
    /\ meta.outcome[1].error_message = Some("Failed to fetch page")
    /\ meta.scoped = "closed"
    /\ meta.closes = 1

\* C30: when close() (or leaving the manager's context) has returned, the
\* close() of each of the three extractors has been run, those that did not
\* fail have closed their handle, and no exception is handed to the caller
C30_CloseAttemptsAll ==
    shutdown.pc = "returned" =>
        /\ \A a \in Extractors : shutdown.results[a] \in {"closed", "raised"}
        /\ \A a \in Extractors : shutdown.results[a] = "closed" => client[a] = "closed"
        /\ shutdown.outcome = Some(Returned("None"))

\* C30's case: the html extractor's close() raised, the other two were
\* closed all the same and close() returned
C30_Witness ==
    /\ shutdown.pc = "returned"
    /\ shutdown.results["html"] = "raised"
    /\ client["feed"] = "closed"
    /\ client["api"] = "closed"
    /\ ~shutdown.outcome[1].raised

=============================================================================
